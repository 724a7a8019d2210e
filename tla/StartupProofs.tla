--------------------------- MODULE StartupProofs ----------------------------
(***************************************************************************)
(* Proofs about newudpl's main: whatever the command line, what the        *)
(* options are when the ports are opened, and that getopt finds all that   *)
(* one reading of the command line finds.                                  *)
(***************************************************************************)
EXTENDS Parts, NumberTheorems, SequenceTheorems

----------------------------------------------------------------------------
(* The options.                                                            *)

Fields == DOMAIN Defaults

(* The options after any number of arguments that fit.                     *)
Proper(o, v) ==
  /\ o = [f \in Fields |-> o[f]]
  /\ o.delay = [f \in {"tv_sec", "tv_usec"} |-> o.delay[f]]
  /\ WithinLimits(o, v)

(* initOptions begins within the limits.                                   *)
LEMMA DefaultsProper == \A v : Proper(Defaults, v)
<1>1. /\ Defaults = [f \in Fields |-> Defaults[f]]
      /\ Defaults.delay = [f \in {"tv_sec", "tv_usec"} |-> Defaults.delay[f]]
  BY SMT DEF Defaults, Fields
<1>2. \A v : WithinLimits(Defaults, v)
  <2>1. /\ Defaults.readPort = 41192 /\ Defaults.writPort = 41193
        /\ Defaults.srceHostIpN = Localhost /\ Defaults.srceHostPort = 41191
        /\ Defaults.destHostIpN = Localhost /\ Defaults.destHostPort = 41194
        /\ Defaults.speed = 1000 /\ Defaults.ether = 10000
    BY SMT DEF Defaults
  <2>2. /\ Defaults.delay.tv_sec = 0 /\ Defaults.delay.tv_usec = 0
        /\ Defaults.inQBufSize = 8192 /\ Defaults.bitError = 0
        /\ Defaults.randomLoss = 0 /\ Defaults.outOfOrder = 0
    BY SMT DEF Defaults
  <2>3. MaxUsec \in Nat
    BY SMT DEF MaxUsec
  <2>4. INADDR_ANY # Localhost /\ INADDR_NONE # Localhost
    BY OptionsAssumption
  <2>5. /\ {41192, 41193} \subseteq UserPorts /\ {41191, 41194} \subseteq Ports
        /\ 1000 \in Speeds /\ 10000 = Ethers[1] /\ 0 \in Usecs
    BY SMT, <2>3 DEF UserPorts, Ports, Speeds, Usecs, Ethers
  <2>6. 8192 \in QueueSizes /\ 0 \in BitErrors /\ 0 \in Percents
    BY SMT DEF QueueSizes, BitErrors, Percents
  <2> QED BY SMT, <2>1, <2>2, <2>4, <2>5, <2>6 DEF WithinLimits
<1> QED BY <1>1, <1>2 DEF Proper

(* A field that is set.                                                    *)
LEMMA SetField ==
  ASSUME NEW o, NEW f, NEW value, o = [g \in Fields |-> o[g]]
  PROVE  LET t == [o EXCEPT ![f] = value]
         IN  /\ t = [g \in Fields |-> t[g]]
             /\ \A g \in Fields : t[g] = IF g = f THEN value ELSE o[g]
BY SMT

(* str2l returns a number within its limits, or the error.                 *)
LEMMA NumberOrError ==
  ASSUME NEW text, NEW limits
  PROVE  str2l(text, limits) \in limits \cup {Error}
BY DEF str2l

(* What SetOption leaves: an error, after which parseCmdLine exits, or     *)
(* options within their limits.                                            *)
Fits(o, v) == o.errF = TRUE \/ Proper(o, v)

(* An error is always noted.                                               *)
LEMMA ErrorNoted ==
  ASSUME NEW v, NEW o, Proper(o, v)
  PROVE  Fits([o EXCEPT !.errF = TRUE], v)
<1>1. o = [g \in Fields |-> o[g]]
  BY DEF Proper
<1>2. "errF" \in Fields
  BY SMT DEF Fields, Defaults
<1> QED BY SMT, <1>1, <1>2, SetField DEF Fits

(* The names of the fields.                                                *)
LEMMA FieldNames ==
  Fields = {"readPort", "writPort", "srceHostIpN", "srceHostPort", "destHostIpN",
            "destHostPort", "speed", "ether", "delay", "inQBufSize", "bitError",
            "randomLoss", "gilCondLoss", "gilUncondLoss", "outOfOrder", "calcMode",
            "verbose", "errF"}
BY SMT DEF Fields, Defaults

(* A field that is set to a value within its limits.                       *)
LEMMA FieldFits ==
  ASSUME NEW v, NEW o, Proper(o, v), NEW f \in Fields \ {"delay"}, NEW value,
         f \in {"readPort", "writPort"} => value \in UserPorts,
         f \in {"srceHostPort", "destHostPort"} => value \in Ports,
         f = "speed" => value \in Speeds,
         f = "ether" => value \in {Ethers[1], Ethers[2], Ethers[3]},
         f = "inQBufSize" => value \in QueueSizes,
         f = "bitError" => value \in BitErrors,
         f \in {"randomLoss", "outOfOrder"} => value \in Percents,
         f \in {"srceHostIpN", "destHostIpN"} =>
           value # INADDR_ANY /\ (v = "1.5" => value # INADDR_NONE)
  PROVE  Proper([o EXCEPT ![f] = value], v)
<1> DEFINE t == [o EXCEPT ![f] = value]
<1>1. o = [g \in Fields |-> o[g]] /\ o.delay = [g \in {"tv_sec", "tv_usec"} |-> o.delay[g]]
  BY DEF Proper
<1>2. /\ t = [g \in Fields |-> t[g]]
      /\ \A g \in Fields : t[g] = IF g = f THEN value ELSE o[g]
  BY <1>1, SetField
<1> HIDE DEF t
<1>3. t.delay = o.delay
  BY <1>2, FieldNames
<1>4. WithinLimits(o, v)
  BY DEF Proper
<1>5. /\ {t.readPort, t.writPort} \subseteq UserPorts
      /\ {t.srceHostPort, t.destHostPort} \subseteq Ports
  BY SMT, <1>2, <1>4, FieldNames DEF WithinLimits
<1>6. t.speed \in Speeds /\ t.ether \in {Ethers[1], Ethers[2], Ethers[3]}
  BY SMT, <1>2, <1>4, FieldNames DEF WithinLimits
<1>7. /\ t.inQBufSize \in QueueSizes /\ t.bitError \in BitErrors
      /\ {t.randomLoss, t.outOfOrder} \subseteq Percents
  BY SMT, <1>2, <1>4, FieldNames DEF WithinLimits
<1>8. /\ INADDR_ANY \notin {t.srceHostIpN, t.destHostIpN}
      /\ v = "1.5" => INADDR_NONE \notin {t.srceHostIpN, t.destHostIpN}
  BY SMT, <1>2, <1>4, FieldNames DEF WithinLimits
<1>9. WithinLimits(t, v)
  BY <1>3, <1>4, <1>5, <1>6, <1>7, <1>8 DEF WithinLimits
<1> QED BY <1>1, <1>2, <1>3, <1>9 DEF Proper, t

(* A number that str2l found within the limits of its field.               *)
LEMMA NumberFits ==
  ASSUME NEW v, NEW o, Proper(o, v), NEW l, NEW f,
         \/ f \in {"readPort", "writPort"} /\ l \in UserPorts \cup {Error}
         \/ f \in {"srceHostPort", "destHostPort"} /\ l \in Ports \cup {Error}
         \/ f = "speed" /\ l \in Speeds \cup {Error}
         \/ f = "ether" /\ l \in {Ethers[1], Ethers[2], Ethers[3]} \cup {Error}
         \/ f = "inQBufSize" /\ l \in QueueSizes \cup {Error}
         \/ f = "bitError" /\ l \in BitErrors \cup {Error}
         \/ f \in {"randomLoss", "outOfOrder"} /\ l \in Percents \cup {Error}
  PROVE  Fits(SetNumber(o, f, l), v)
<1>1. CASE l = Error
  BY <1>1, ErrorNoted DEF SetNumber
<1>2. CASE l # Error
  <2>1. f \in Fields \ {"delay"}
    BY FieldNames
  <2>2. Proper([o EXCEPT ![f] = l], v)
    BY <1>2, <2>1, FieldFits
  <2> QED BY <1>2, <2>2 DEF SetNumber, Fits
<1> QED BY <1>1, <1>2

(* -p: one or both of the emulator's ports.                                *)
LEMMA PortsFit ==
  ASSUME NEW v, NEW o, Proper(o, v), NEW text
  PROVE  Fits(getPorts(o, text), v)
<1> DEFINE tokens == strtok(text, {":"})
           port(k) == str2l(Token(tokens, k), UserPorts)
<1>1. \A k : port(k) \in UserPorts \cup {Error}
  BY NumberOrError
<1>2. getPorts(o, text) =
        IF text # Null /\ Head(text) = ":" THEN SetNumber(o, "writPort", port(1))
        ELSE IF Len(tokens) < 2 THEN SetNumber(o, "readPort", port(1))
        ELSE IF port(1) = Error THEN [o EXCEPT !.errF = TRUE]
        ELSE SetNumber([o EXCEPT !.readPort = port(1)], "writPort", port(2))
  BY DEF getPorts
<1> HIDE DEF port, tokens
<1>3. Fits(SetNumber(o, "writPort", port(1)), v) /\ Fits(SetNumber(o, "readPort", port(1)), v)
  BY <1>1, NumberFits
<1>4. Fits([o EXCEPT !.errF = TRUE], v)
  BY ErrorNoted
<1>5. ASSUME port(1) # Error
      PROVE  Fits(SetNumber([o EXCEPT !.readPort = port(1)], "writPort", port(2)), v)
  <2>1. "readPort" \in Fields \ {"delay"} /\ port(1) \in UserPorts
    BY <1>1, <1>5, FieldNames
  <2>2. Proper([o EXCEPT !["readPort"] = port(1)], v)
    BY <2>1, FieldFits
  <2> QED BY <1>1, <2>2, NumberFits
<1> QED BY <1>2, <1>3, <1>4, <1>5

(* -i and -o: a host and its port.                                         *)
LEMMA HostFits ==
  ASSUME NEW v \in {"1.4", "1.5"}, NEW o, Proper(o, v), NEW text,
         NEW ipN, NEW portN,
         \/ ipN = "srceHostIpN" /\ portN = "srceHostPort"
         \/ ipN = "destHostIpN" /\ portN = "destHostPort"
  PROVE  Fits(getHost(o, ipN, portN, text, v), v)
<1> DEFINE tokens == strtok(text, {":", "/"})
           ip     == IF tokens = <<>> THEN o[ipN] ELSE resolve(v, tokens[1][1])
           t      == [o EXCEPT ![ipN] = ip]
           l      == str2l(tokens[2], Ports)
<1>1. getHost(o, ipN, portN, text, v) =
        IF ip = INADDR_ANY THEN [o EXCEPT !.errF = TRUE]
        ELSE IF Len(tokens) < 2 THEN t
        ELSE IF tokens[2][1] = "*" THEN [t EXCEPT ![portN] = 0]
        ELSE SetNumber(t, portN, l)
  BY DEF getHost
<1>2. v = "1.5" => o[ipN] # INADDR_NONE
  BY DEF Proper, WithinLimits
<1>3. \A name : v = "1.5" => resolve(v, name) # INADDR_NONE
  BY OptionsAssumption DEF resolve, host2ip
<1>4. v = "1.5" => ip # INADDR_NONE
  BY <1>2, <1>3
<1>5. l \in Ports \cup {Error}
  BY NumberOrError
<1> HIDE DEF tokens, ip, l
<1>6. Fits([o EXCEPT !.errF = TRUE], v)
  BY ErrorNoted
<1>7. ASSUME ip # INADDR_ANY
      PROVE  Proper(t, v)
  <2>1. ipN \in Fields \ {"delay"}
    BY FieldNames
  <2> QED BY <1>4, <1>7, <2>1, FieldFits
<1> HIDE DEF t
<1>8. ASSUME Proper(t, v)
      PROVE  /\ Fits(t, v) /\ Fits([t EXCEPT ![portN] = 0], v)
             /\ Fits(SetNumber(t, portN, l), v)
  <2>1. portN \in Fields \ {"delay"}
    BY FieldNames
  <2>2. 0 \in Ports
    BY SMT DEF Ports
  <2>3. Proper([t EXCEPT ![portN] = 0], v)
    BY <1>8, <2>1, <2>2, FieldFits
  <2>4. Fits(SetNumber(t, portN, l), v)
    BY <1>5, <1>8, NumberFits
  <2> QED BY <1>8, <2>3, <2>4 DEF Fits
<1> QED BY <1>1, <1>6, <1>7, <1>8

(* A delay that is set.                                                    *)
LEMMA SetDelay ==
  ASSUME NEW v, NEW o, Proper(o, v), NEW d, d = [f \in {"tv_sec", "tv_usec"} |-> d[f]],
         d.tv_sec \in 0..10, d.tv_usec \in Usecs
  PROVE  Proper([o EXCEPT !.delay = d], v)
<1> DEFINE t == [o EXCEPT !.delay = d]
<1>1. o = [g \in Fields |-> o[g]] /\ WithinLimits(o, v)
  BY DEF Proper
<1>2. /\ t = [g \in Fields |-> t[g]]
      /\ \A g \in Fields : t[g] = IF g = "delay" THEN d ELSE o[g]
  BY <1>1, SetField
<1> HIDE DEF t
<1>3. t.delay = d
  BY <1>2, FieldNames
<1>4. /\ t.readPort = o.readPort /\ t.writPort = o.writPort
      /\ t.srceHostPort = o.srceHostPort /\ t.destHostPort = o.destHostPort
      /\ t.srceHostIpN = o.srceHostIpN /\ t.destHostIpN = o.destHostIpN
  BY <1>2, FieldNames
<1>5. /\ t.speed = o.speed /\ t.ether = o.ether /\ t.inQBufSize = o.inQBufSize
      /\ t.bitError = o.bitError /\ t.randomLoss = o.randomLoss
      /\ t.outOfOrder = o.outOfOrder
  BY <1>2, FieldNames
<1>6. WithinLimits(t, v)
  BY <1>1, <1>3, <1>4, <1>5 DEF WithinLimits
<1> QED BY <1>2, <1>3, <1>6 DEF Proper, t

(* -d: seconds and their fraction.                                         *)
LEMMA DelayFits ==
  ASSUME NEW v, NEW o, Proper(o, v), NEW text
  PROVE  Fits(getSec(o, text, 10), v)
<1> DEFINE tokens == strtok(text, {"."})
           sec    == str2l(Token(tokens, 1), 0..10)
           digits == Token(tokens, 2)
           usec   == IF Len(digits) = 1 /\ digits[1] \in DOMAIN FractionOf
                     THEN FractionOf[digits[1]] ELSE str2l(digits, Usecs)
           t      == IF tokens = <<>> THEN o ELSE [o EXCEPT !.delay.tv_sec = sec]
<1>1. getSec(o, text, 10) =
        IF (tokens # <<>> /\ sec = Error) \/ (digits # Null /\ usec = Error)
        THEN [o EXCEPT !.errF = TRUE]
        ELSE IF digits = Null THEN t ELSE [t EXCEPT !.delay.tv_usec = usec]
  BY DEF getSec
<1>2. sec \in 0..10 \cup {Error}
  BY NumberOrError
<1>3. usec \in Usecs \cup {Error}
  BY NumberOrError, OptionsAssumption
<1> HIDE DEF tokens, sec, digits, usec
<1>4. Fits([o EXCEPT !.errF = TRUE], v)
  BY ErrorNoted
<1>5. ASSUME ~(tokens # <<>> /\ sec = Error)
      PROVE  Proper(t, v)
  <2>1. CASE tokens = <<>>
    BY <2>1
  <2>2. CASE tokens # <<>>
    <3> DEFINE d == [o.delay EXCEPT !.tv_sec = sec]
    <3>1. /\ o.delay = [f \in {"tv_sec", "tv_usec"} |-> o.delay[f]]
          /\ o.delay.tv_usec \in Usecs
      BY DEF Proper, WithinLimits
    <3>2. /\ d = [f \in {"tv_sec", "tv_usec"} |-> d[f]]
          /\ d.tv_sec = sec /\ d.tv_usec = o.delay.tv_usec
      BY <3>1
    <3>3. t = [o EXCEPT !.delay = d]
      BY <2>2
    <3> HIDE DEF d
    <3>4. sec \in 0..10
      BY <1>2, <1>5, <2>2
    <3> QED BY <3>1, <3>2, <3>3, <3>4, SetDelay
  <2> QED BY <2>1, <2>2
<1> HIDE DEF t
<1>6. ASSUME Proper(t, v), usec # Error
      PROVE  Proper([t EXCEPT !.delay.tv_usec = usec], v)
  <2> DEFINE d == [t.delay EXCEPT !.tv_usec = usec]
  <2>1. /\ t.delay = [f \in {"tv_sec", "tv_usec"} |-> t.delay[f]]
        /\ t.delay.tv_sec \in 0..10
    BY <1>6 DEF Proper, WithinLimits
  <2>2. /\ d = [f \in {"tv_sec", "tv_usec"} |-> d[f]]
        /\ d.tv_usec = usec /\ d.tv_sec = t.delay.tv_sec
    BY <2>1
  <2>3. [t EXCEPT !.delay.tv_usec = usec] = [t EXCEPT !.delay = d]
    OBVIOUS
  <2> HIDE DEF d
  <2> QED BY <1>3, <1>6, <2>1, <2>2, <2>3, SetDelay
<1> QED BY <1>1, <1>4, <1>5, <1>6 DEF Fits

(* -e: one of three kinds of Ethernet.                                     *)
LEMMA EtherFits ==
  ASSUME NEW v, NEW o, Proper(o, v), NEW text
  PROVE  Fits(SetNumber(o, "ether", getEther(text)), v)
<1>1. getEther(text) \in {Ethers[1], Ethers[2], Ethers[3]} \cup {Error}
  <2> DEFINE l == str2l(text, 1..3)
  <2>1. l \in (1..3) \cup {Error}
    BY NumberOrError
  <2>2. getEther(text) = IF l = Error THEN Error ELSE Ethers[l]
    BY DEF getEther
  <2> HIDE DEF l
  <2> QED BY <2>1, <2>2
<1> QED BY <1>1, NumberFits

(* -C and -U: anything but 0.                                              *)
LEMMA ProbabilityFits ==
  ASSUME NEW v, NEW o, Proper(o, v), NEW text, NEW f \in {"gilCondLoss", "gilUncondLoss"}
  PROVE  Fits(SetProbability(o, f, text), v)
<1>1. Fits([o EXCEPT !.errF = TRUE], v)
  BY ErrorNoted
<1>2. Proper([o EXCEPT ![f] = strtod(text)], v)
  <2>1. f \in Fields \ {"delay"}
    BY FieldNames
  <2> QED BY <2>1, FieldFits
<1> QED BY <1>1, <1>2 DEF SetProbability, Fits

(* The whole switch of parseCmdLine.                                       *)
LEMMA OptionFits ==
  ASSUME NEW v \in {"1.4", "1.5"}, NEW o, Proper(o, v), NEW c, NEW text
  PROVE  Fits(SetOption(o, c, text, v), v)
<1> DEFINE t == SetOption(o, c, text, v)
<1>1. CASE c = "p"
  BY <1>1, PortsFit DEF SetOption
<1>2. CASE c = "i" \/ c = "o"
  <2>1. /\ Fits(getHost(o, "srceHostIpN", "srceHostPort", text, v), v)
        /\ Fits(getHost(o, "destHostIpN", "destHostPort", text, v), v)
    BY HostFits
  <2> QED BY <1>2, <2>1 DEF SetOption
<1>3. CASE c = "d"
  BY <1>3, DelayFits DEF SetOption
<1>4. CASE c = "e"
  BY <1>4, EtherFits DEF SetOption
<1>5. CASE c \in {"s", "q", "B", "L", "O"}
  <2>1. /\ Fits(SetNumber(o, "speed", str2l(text, Speeds)), v)
        /\ Fits(SetNumber(o, "inQBufSize", str2l(text, QueueSizes)), v)
        /\ Fits(SetNumber(o, "bitError", str2l(text, BitErrors)), v)
    BY NumberFits, NumberOrError
  <2>2. /\ Fits(SetNumber(o, "randomLoss", str2l(text, Percents)), v)
        /\ Fits(SetNumber(o, "outOfOrder", str2l(text, Percents)), v)
    BY NumberFits, NumberOrError
  <2> QED BY <1>5, <2>1, <2>2 DEF SetOption
<1>6. CASE c = "C" \/ c = "U"
  <2>1. /\ Fits(SetProbability(o, "gilCondLoss", text), v)
        /\ Fits(SetProbability(o, "gilUncondLoss", text), v)
    BY ProbabilityFits
  <2> QED BY <1>6, <2>1 DEF SetOption
<1>7. CASE c = "m" \/ c = "v"
  <2>1. Proper([o EXCEPT !["calcMode"] = 1], v) /\ Proper([o EXCEPT !["verbose"] = o.verbose + 1], v)
    <3>1. {"calcMode", "verbose"} \subseteq Fields \ {"delay"}
      BY FieldNames
    <3> QED BY <3>1, FieldFits
  <2>2. t \in {[o EXCEPT !["calcMode"] = 1], [o EXCEPT !["verbose"] = o.verbose + 1]}
    BY <1>7 DEF SetOption
  <2> QED BY <2>1, <2>2 DEF Fits
<1>8. CASE c \notin {"p", "i", "o", "d", "e", "s", "q", "B", "L", "O", "C", "U", "m", "v"}
  <2>1. t = o
    BY <1>8 DEF SetOption
  <2> QED BY <2>1 DEF Fits
<1> QED BY <1>1, <1>2, <1>3, <1>4, <1>5, <1>6, <1>7, <1>8

----------------------------------------------------------------------------
(* The program.                                                            *)

(* The options are the defaults until parseCmdLine, and proper until it    *)
(* exits.                                                                  *)
OptionsInv ==
  /\ phase = "exec" => options = Defaults
  /\ phase \notin {"exec", "exit", "killed"} =>
       version \in {"1.4", "1.5"} /\ Proper(options, version)

(* A program that opens its ports has every option within its limits,      *)
(* whatever was on its command line and however getopt permuted it.        *)
THEOREM OptionsStayWithinLimits == Spec => []OptionsWithinLimits
<1>1. Init => OptionsInv
  BY DEF Init, StartupInit, OptionsInv
<1>2. OptionsInv /\ [Next]_partsVars => OptionsInv'
  <2>1. ASSUME OptionsInv, UNCHANGED startupVars
        PROVE  OptionsInv'
    BY <2>1 DEF startupVars, OptionsInv
  <2>2. ASSUME OptionsInv, StartupNext
        PROVE  OptionsInv'
    <3>1. ASSUME NEW v \in {"1.4", "1.5"}, NEW a \in CommandLines, NEW order, Exec(v, a, order)
          PROVE  OptionsInv'
      BY <2>2, <3>1, DefaultsProper DEF Exec, OptionsInv
    <3>2. ASSUME ParseOption
          PROVE  OptionsInv'
      <4> DEFINE s == getopt(scan)
                 o == SetOption(options, s.c, s.optarg, version)
      <4>1. /\ phase = "parse" /\ options' = o /\ version' = version
            /\ phase' = IF s.c \in {"?", "h"} \/ o.errF THEN "exit" ELSE "parse"
        BY <3>2 DEF ParseOption
      <4>2. Fits(o, version)
        BY <2>2, <4>1, OptionFits DEF OptionsInv
      <4> HIDE DEF o, s
      <4>3. CASE o.errF = TRUE
        BY <4>1, <4>3 DEF OptionsInv
      <4>4. CASE Proper(o, version)
        BY <2>2, <4>1, <4>4 DEF OptionsInv
      <4> QED BY <4>2, <4>3, <4>4 DEF Fits
    <3>3. ASSUME ParserStays, phase \notin {"exec", "exit", "killed"}, phase' # "exec"
          PROVE  OptionsInv'
      BY <2>2, <3>3 DEF ParserStays, OptionsInv
    <3>4. ASSUME ParseEnds
          PROVE  OptionsInv'
      BY <2>2, <3>4 DEF ParseEnds, OptionsInv
    <3>5. ASSUME MainStep
          PROVE  OptionsInv'
      <4>1. CASE InitOptions \/ OpenReadfd \/ OpenWritfd \/ OpenQueue \/ PrintTitle
        BY <3>3, <4>1 DEF InitOptions, OpenReadfd, OpenWritfd, OpenQueue, PrintTitle, Opens, Goes
      <4>2. CASE SetStdin \/ SetSigint \/ SetReadfd \/ StartLoop
        BY <3>3, <4>2 DEF SetStdin, SetSigint, SetReadfd, StartLoop, Installs, Goes
      <4>3. CASE LoopEnds \/ PrintStatistics \/ Destroy \/ Return
        BY <3>3, <4>3 DEF LoopEnds, PrintStatistics, Destroy, Return, Closes, Goes
      <4> QED BY <3>5, <4>1, <4>2, <4>3 DEF MainStep
    <3>6. ASSUME Fails \/ LoopFails \/ LoopFails14
          PROVE  OptionsInv'
      BY <3>3, <3>6 DEF Fails, LoopFails, LoopFails14, Goes
    <3>7. ASSUME Traffic \/ StopCommand \/ ErrorStop
          PROVE  OptionsInv'
      BY <3>3, <3>7 DEF Traffic, StopCommand, ErrorStop, InLoop
    <3>8. ASSUME Killed \/ sigHandler \/ sigHandlerInReadHandler \/ UseAfterClose
          PROVE  OptionsInv'
      BY <3>3, <3>8 DEF Killed, sigHandler, sigHandlerInReadHandler, UseAfterClose, Interrupt,
                        Running
    <3> QED BY <2>2, <3>1, <3>2, <3>4, <3>5, <3>6, <3>7, <3>8 DEF StartupNext
  <2> QED BY <2>1, <2>2 DEF Next, OthersStay, partsVars
<1>3. OptionsInv => OptionsWithinLimits
  BY DEF OptionsInv, OptionsWithinLimits, Proper
<1> QED BY <1>1, <1>2, <1>3, PTL DEF Spec

----------------------------------------------------------------------------
(* The command line: what one reading of it finds, and how its letters are *)
(* read.                                                                   *)

(* Command lines, and what is read of them.                                *)
Texts    == Seq(STRING)
Codes    == STRING \cup {"?"}
Found    == Seq(Codes \X Texts)
Operands == Seq(Texts)
Read     == [found : Found, operands : Operands]

(* What is found before joins what is found later.                         *)
Join(found, r) == [found |-> found \o r.found, operands |-> r.operands]

(* The place of the first letter from j on that takes an argument, or the  *)
(* one behind the last letter.                                             *)
ArgumentAt(e, j) == Min({Len(e) + 1} \cup {n \in j..Len(e) : e[n] \in TakeArgument})

(* A minimum is one.                                                       *)
LEMMA MinIsLeast ==
  ASSUME NEW S, S \subseteq Nat, S # {}
  PROVE  Min(S) \in S /\ \A k \in S : Min(S) <= k
<1>1. \E m \in S : \A k \in S : m <= k
  BY Least
<1> QED BY <1>1 DEF Min

(* Nothing before it takes one.                                            *)
LEMMA ArgumentAtIs ==
  ASSUME NEW e \in Texts, NEW j \in 1..Len(e) + 1
  PROVE  LET k == ArgumentAt(e, j)
         IN  /\ k \in j..Len(e) + 1
             /\ k <= Len(e) => e[k] \in TakeArgument
             /\ \A n \in j..k - 1 : e[n] \notin TakeArgument
<1> DEFINE S == {Len(e) + 1} \cup {n \in j..Len(e) : e[n] \in TakeArgument}
           k == Min(S)
<1>1. Len(e) \in Nat /\ j \in Nat /\ 1 <= j /\ j <= Len(e) + 1
  BY DEF Texts
<1>2. S \subseteq Nat /\ S # {} /\ \A n \in S : n \in j..Len(e) + 1
  BY <1>1
<1>3. k \in S /\ \A n \in S : k <= n
  <2> HIDE DEF S
  <2> QED BY <1>2, MinIsLeast
<1> HIDE DEF k
<1>4. k \in j..Len(e) + 1
  BY <1>2, <1>3
<1>5. k <= Len(e) => e[k] \in TakeArgument
  BY <1>1, <1>3
<1>6. ASSUME NEW n \in j..k - 1
      PROVE  e[n] \notin TakeArgument
  <2>1. n \in j..Len(e) /\ n < k
    BY <1>1, <1>4
  <2>2. n \notin S
    BY <1>3, <1>1, <1>4, <2>1
  <2> QED BY <2>1, <2>2
<1>7. ArgumentAt(e, j) = k
  BY DEF ArgumentAt, k
<1> QED BY <1>4, <1>5, <1>6, <1>7

(* It depends on where the search begins only as far as it is before.      *)
LEMMA ArgumentAtNext ==
  ASSUME NEW e \in Texts, NEW j \in 1..Len(e)
  PROVE  /\ e[j] \in TakeArgument => ArgumentAt(e, j) = j
         /\ e[j] \notin TakeArgument => ArgumentAt(e, j) = ArgumentAt(e, j + 1)
<1> DEFINE k == ArgumentAt(e, j)
           m == ArgumentAt(e, j + 1)
<1>1. Len(e) \in Nat /\ j \in 1..Len(e) + 1 /\ j + 1 \in 1..Len(e) + 1
  BY DEF Texts
<1>2. /\ k \in j..Len(e) + 1
      /\ k <= Len(e) => e[k] \in TakeArgument
      /\ \A n \in j..k - 1 : e[n] \notin TakeArgument
  BY <1>1, ArgumentAtIs
<1>3. /\ m \in j + 1..Len(e) + 1
      /\ m <= Len(e) => e[m] \in TakeArgument
      /\ \A n \in j + 1..m - 1 : e[n] \notin TakeArgument
  BY <1>1, ArgumentAtIs
<1> HIDE DEF k, m
<1>4. e[j] \in TakeArgument => k = j
  <2> SUFFICES ASSUME e[j] \in TakeArgument, k # j PROVE FALSE
    OBVIOUS
  <2>1. j \in j..k - 1
    BY <1>1, <1>2
  <2> QED BY <1>2, <2>1
<1>5. e[j] \notin TakeArgument => k = m
  <2> SUFFICES ASSUME e[j] \notin TakeArgument, k # m PROVE FALSE
    OBVIOUS
  <2>1. k # j
    BY <1>1, <1>2
  <2>2. CASE k < m
    <3>1. k \in j + 1..m - 1 /\ k <= Len(e)
      BY <1>1, <1>2, <1>3, <2>1, <2>2
    <3> QED BY <1>2, <1>3, <3>1
  <2>3. CASE m < k
    <3>1. m \in j..k - 1 /\ m <= Len(e)
      BY <1>1, <1>2, <1>3, <2>3
    <3> QED BY <1>2, <1>3, <3>1
  <2> QED BY <1>1, <1>2, <1>3, <2>2, <2>3
<1> QED BY <1>4, <1>5 DEF k, m

(* The letters from j on that come before the one at k.                    *)
Known(c) == IF c \in Flags THEN c ELSE "?"
Alone(e, j, k) == [n \in 1..k - j |-> <<Known(e[j + n - 1]), <<>>>>]

(* A letter without an argument is an option that can be found.            *)
LEMMA KnownFound ==
  ASSUME NEW c \in STRING
  PROVE  <<Known(c), <<>>>> \in Codes \X Texts
<1>1. <<>> \in Texts
  BY DEF Texts
<1>2. Known(c) \in Codes
  BY DEF Known, Codes
<1> QED BY <1>1, <1>2

(* So are several of them.                                                 *)
LEMMA AloneFound ==
  ASSUME NEW e \in Texts, NEW j \in 1..Len(e) + 1, NEW k \in j..Len(e) + 1
  PROVE  /\ Alone(e, j, k) \in Found /\ Len(Alone(e, j, k)) = k - j
         /\ \A n \in 1..k - j : Alone(e, j, k)[n] = <<Known(e[j + n - 1]), <<>>>>
<1>1. Len(e) \in Nat /\ k - j \in Nat
  BY DEF Texts
<1>2. ASSUME NEW n \in 1..k - j
      PROVE  <<Known(e[j + n - 1]), <<>>>> \in Codes \X Texts
  <2>1. j + n - 1 \in 1..Len(e)
    BY <1>1
  <2>2. e[j + n - 1] \in STRING
    BY <2>1 DEF Texts
  <2> QED BY <2>2, KnownFound
<1> DEFINE a == Alone(e, j, k)
<1>3. a = [n \in 1..k - j |-> <<Known(e[j + n - 1]), <<>>>>]
  BY DEF Alone
<1>4. a \in [1..k - j -> Codes \X Texts]
  BY <1>2, <1>3
<1> HIDE DEF a
<1>5. a \in Seq(Codes \X Texts) /\ Len(a) = k - j
  <2> DEFINE T == Codes \X Texts
             m == k - j
  <2>1. m \in Nat /\ a \in [1..m -> T]
    BY <1>1, <1>4
  <2> HIDE DEF T, m
  <2>2. a \in Seq(T) /\ Len(a) = m
    BY <2>1
  <2> QED BY <2>2 DEF T, m
<1> QED BY <1>3, <1>5 DEF Found, a

(* The first of them and the others.                                       *)
LEMMA AloneNext ==
  ASSUME NEW e \in Texts, NEW j \in 1..Len(e), NEW k \in j + 1..Len(e) + 1
  PROVE  Alone(e, j, k) = <<<<Known(e[j]), <<>>>>>> \o Alone(e, j + 1, k)
<1> DEFINE a == Alone(e, j, k)
           b == Alone(e, j + 1, k)
           f == <<<<Known(e[j]), <<>>>>>>
<1>1. Len(e) \in Nat /\ j \in 1..Len(e) + 1 /\ k \in j..Len(e) + 1
      /\ j + 1 \in 1..Len(e) + 1
  BY DEF Texts
<1>2. /\ a \in Found /\ Len(a) = k - j
      /\ \A n \in 1..k - j : a[n] = <<Known(e[j + n - 1]), <<>>>>
  BY <1>1, AloneFound
<1>3. /\ b \in Found /\ Len(b) = k - (j + 1)
      /\ \A n \in 1..k - (j + 1) : b[n] = <<Known(e[(j + 1) + n - 1]), <<>>>>
  BY <1>1, AloneFound
<1>4. f \in Found /\ Len(f) = 1 /\ f[1] = <<Known(e[j]), <<>>>>
  <2>1. e[j] \in STRING
    BY DEF Texts
  <2>2. <<Known(e[j]), <<>>>> \in Codes \X Texts
    BY <2>1, KnownFound
  <2> DEFINE x == <<Known(e[j]), <<>>>>
  <2> HIDE DEF x
  <2>3. <<x>> \in Seq(Codes \X Texts) /\ Len(<<x>>) = 1 /\ <<x>>[1] = x
    BY <2>2 DEF x
  <2> QED BY <2>3 DEF Found, x
<1> HIDE DEF a, b, f
<1>5. /\ f \o b \in Found /\ Len(f \o b) = k - j
      /\ \A n \in 1..k - j : (f \o b)[n] = IF n <= 1 THEN f[n] ELSE b[n - 1]
  <2>1. /\ f \o b \in Found /\ Len(f \o b) = Len(f) + Len(b)
        /\ \A n \in 1..Len(f) + Len(b) : (f \o b)[n] = IF n <= Len(f) THEN f[n] ELSE b[n - Len(f)]
    <3> DEFINE T == Codes \X Texts
    <3>1. f \in Seq(T) /\ b \in Seq(T)
      BY <1>3, <1>4 DEF Found
    <3> HIDE DEF T
    <3>2. /\ f \o b \in Seq(T) /\ Len(f \o b) = Len(f) + Len(b)
          /\ \A n \in 1..Len(f) + Len(b) :
               (f \o b)[n] = IF n <= Len(f) THEN f[n] ELSE b[n - Len(f)]
      BY <3>1, ConcatProperties
    <3> QED BY <3>2 DEF Found, T
  <2>2. Len(f) + Len(b) = k - j
    BY <1>1, <1>3, <1>4
  <2> QED BY <1>4, <2>1, <2>2
<1>6. \A n \in 1..k - j : a[n] = (f \o b)[n]
  <2> SUFFICES ASSUME NEW n \in 1..k - j PROVE a[n] = (f \o b)[n]
    OBVIOUS
  <2>1. CASE n = 1
    <3>1. a[n] = <<Known(e[j + n - 1]), <<>>>> /\ (f \o b)[n] = f[1]
      BY <1>2, <1>5, <2>1
    <3>2. j + n - 1 = j
      BY <1>1, <2>1
    <3> QED BY <1>4, <3>1, <3>2
  <2>2. CASE n # 1
    <3>1. n - 1 \in 1..k - (j + 1) /\ (j + 1) + (n - 1) - 1 = j + n - 1 /\ ~ (n <= 1)
      BY <1>1, <2>2
    <3> QED BY <1>2, <1>3, <1>5, <3>1
  <2> QED BY <2>1, <2>2
<1> QED BY <1>2, <1>5, <1>6, SameSequence DEF Found, a, b, f

(* The option of the letter at k of element i, which takes an argument,    *)
(* and the element that is read next.                                      *)
OptionAt(a, n, k) ==
  IF k < Len(a[n]) THEN <<a[n][k], SubSeq(a[n], k + 1, Len(a[n]))>>
  ELSE IF n = Len(a) THEN <<"?", <<>>>> ELSE <<a[n][k], a[n + 1]>>
NextAfter(a, n, k) == IF k = Len(a[n]) /\ n < Len(a) THEN n + 2 ELSE n + 1

(* What the letters find is what stands alone and what takes an argument.  *)
LEMMA LettersAre ==
  ASSUME NEW a \in Operands, NEW n \in 1..Len(a), NEW j \in 1..Len(a[n]) + 1
  PROVE  LET k == ArgumentAt(a[n], j)
             alone == Alone(a[n], j, k)
         IN  Letters(a, n, j) =
               IF k > Len(a[n]) THEN [found |-> alone, next |-> n + 1]
               ELSE [found |-> Append(alone, OptionAt(a, n, k)), next |-> NextAfter(a, n, k)]
<1> DEFINE k == ArgumentAt(a[n], j)
           alone == Alone(a[n], j, k)
<1>1. a[n] \in Texts /\ Len(a[n]) \in Nat /\ n \in Nat /\ n <= Len(a) /\ Len(a) \in Nat
  BY DEF Operands, Texts
<1>2. k \in j..Len(a[n]) + 1
  BY <1>1, ArgumentAtIs
<1>3. Letters(a, n, j) =
        IF k > Len(a[n]) THEN [found |-> alone, next |-> n + 1]
        ELSE IF k < Len(a[n])
        THEN [found |-> Append(alone, <<a[n][k], SubSeq(a[n], k + 1, Len(a[n]))>>), next |-> n + 1]
        ELSE IF n = Len(a) THEN [found |-> Append(alone, <<"?", <<>>>>), next |-> n + 1]
        ELSE [found |-> Append(alone, <<a[n][k], a[n + 1]>>), next |-> n + 2]
  BY DEF Letters, ArgumentAt, Alone, Known
<1> HIDE DEF k, alone
<1>4. CASE k > Len(a[n])
  BY <1>3, <1>4 DEF k, alone
<1>5. CASE k < Len(a[n])
  <2>1. ~ (k > Len(a[n])) /\ k # Len(a[n])
    BY <1>1, <1>2, <1>5
  <2> QED BY <1>3, <1>5, <2>1 DEF OptionAt, NextAfter, k, alone
<1>6. CASE k = Len(a[n])
  <2>1. ~ (k > Len(a[n])) /\ ~ (k < Len(a[n])) /\ (n < Len(a) <=> n # Len(a))
    BY <1>1, <1>2, <1>6
  <2> QED BY <1>3, <1>6, <2>1 DEF OptionAt, NextAfter, k, alone
<1> QED BY <1>1, <1>2, <1>4, <1>5, <1>6

(* An option that takes an argument.                                       *)
LEMMA OptionAtFound ==
  ASSUME NEW a \in Operands, NEW n \in 1..Len(a), NEW k \in 1..Len(a[n])
  PROVE  OptionAt(a, n, k) \in Codes \X Texts /\ NextAfter(a, n, k) \in n + 1..Len(a) + 1
<1>1. a[n] \in Texts /\ Len(a[n]) \in Nat /\ n \in Nat /\ n <= Len(a) /\ Len(a) \in Nat
  BY DEF Operands, Texts
<1>2. a[n][k] \in STRING
  BY <1>1 DEF Texts
<1>3. a[n][k] \in Codes /\ "?" \in Codes /\ <<>> \in Texts
  BY <1>2 DEF Codes, Texts
<1>4. SubSeq(a[n], k + 1, Len(a[n])) \in Texts
  <2>1. k + 1 \in Int /\ Len(a[n]) \in Int /\ \A m \in k + 1..Len(a[n]) : a[n][m] \in STRING
    BY <1>1 DEF Texts
  <2> QED BY <2>1, SubSeqProperties DEF Texts
<1>5. n # Len(a) => a[n + 1] \in Texts
  BY <1>1 DEF Operands
<1>6. OptionAt(a, n, k) \in Codes \X Texts
  BY <1>3, <1>4, <1>5 DEF OptionAt
<1>7. NextAfter(a, n, k) \in n + 1..Len(a) + 1
  BY <1>1 DEF NextAfter
<1> QED BY <1>6, <1>7

(* What a sequence of results becomes with one more.                       *)
LEMMA FoundAppend ==
  ASSUME NEW f \in Found, NEW r \in Codes \X Texts
  PROVE  Append(f, r) \in Found /\ Append(f, r) = f \o <<r>> /\ <<r>> \in Found
<1> DEFINE T == Codes \X Texts
<1>1. f \in Seq(T) /\ r \in T
  BY DEF Found
<1> HIDE DEF T
<1>2. Append(f, r) \in Seq(T) /\ Append(f, r) = f \o <<r>> /\ <<r>> \in Seq(T)
  BY <1>1, AppendProperties, AppendIsConcat
<1> QED BY <1>2 DEF Found, T

(* The results before and after.                                           *)
LEMMA FoundConcat ==
  ASSUME NEW f \in Found, NEW g \in Found
  PROVE  f \o g \in Found /\ <<>> \in Found /\ <<>> \o f = f /\ f \o <<>> = f
<1> DEFINE T == Codes \X Texts
<1>1. f \in Seq(T) /\ g \in Seq(T)
  BY DEF Found
<1> HIDE DEF T
<1>2. f \o g \in Seq(T) /\ <<>> \in Seq(T) /\ <<>> \o f = f /\ f \o <<>> = f
  BY <1>1, ConcatProperties, ConcatEmptySeq
<1> QED BY <1>2 DEF Found, T

(* In which order they are joined does not matter.                         *)
LEMMA FoundAssociative ==
  ASSUME NEW f \in Found, NEW g \in Found, NEW h \in Found
  PROVE  (f \o g) \o h = f \o (g \o h)
BY ConcatAssociative DEF Found

(* Letters are read to the next element at the latest but one.             *)
LEMMA LettersTyped ==
  ASSUME NEW a \in Operands, NEW n \in 1..Len(a), NEW j \in 1..Len(a[n]) + 1
  PROVE  /\ Letters(a, n, j).found \in Found
         /\ Letters(a, n, j).next \in n + 1..Len(a) + 1
<1> DEFINE k == ArgumentAt(a[n], j)
           alone == Alone(a[n], j, k)
<1>1. a[n] \in Texts /\ Len(a[n]) \in Nat /\ n \in Nat /\ n <= Len(a) /\ Len(a) \in Nat
  BY DEF Operands, Texts
<1>2. k \in j..Len(a[n]) + 1
  BY <1>1, ArgumentAtIs
<1>3. alone \in Found
  BY <1>1, <1>2, AloneFound
<1>4. Letters(a, n, j) =
               IF k > Len(a[n]) THEN [found |-> alone, next |-> n + 1]
               ELSE [found |-> Append(alone, OptionAt(a, n, k)), next |-> NextAfter(a, n, k)]
  BY LettersAre
<1> HIDE DEF k, alone
<1>5. CASE k > Len(a[n])
  <2>1. Letters(a, n, j).found = alone /\ Letters(a, n, j).next = n + 1
    BY <1>4, <1>5
  <2>2. n + 1 \in n + 1..Len(a) + 1
    BY <1>1
  <2> QED BY <1>3, <2>1, <2>2
<1>6. CASE ~ (k > Len(a[n]))
  <2>1. k \in 1..Len(a[n])
    BY <1>1, <1>2, <1>6
  <2>2. OptionAt(a, n, k) \in Codes \X Texts /\ NextAfter(a, n, k) \in n + 1..Len(a) + 1
    BY <2>1, OptionAtFound
  <2>3. /\ Letters(a, n, j).found = Append(alone, OptionAt(a, n, k))
        /\ Letters(a, n, j).next = NextAfter(a, n, k)
    BY <1>4, <1>6
  <2>4. Append(alone, OptionAt(a, n, k)) \in Found
    BY <1>3, <2>2, FoundAppend
  <2> QED BY <2>2, <2>3, <2>4
<1> QED BY <1>5, <1>6

(* Behind the last letter.                                                 *)
LEMMA NoLetters ==
  ASSUME NEW a \in Operands, NEW n \in 1..Len(a)
  PROVE  LET l == Letters(a, n, Len(a[n]) + 1) IN l.found = <<>> /\ l.next = n + 1
<1> DEFINE j == Len(a[n]) + 1
           k == ArgumentAt(a[n], j)
<1>1. a[n] \in Texts /\ Len(a[n]) \in Nat /\ j \in 1..Len(a[n]) + 1
  BY DEF Operands, Texts
<1>2. k \in j..Len(a[n]) + 1
  BY <1>1, ArgumentAtIs
<1>3. k = j /\ k > Len(a[n])
  BY <1>1, <1>2
<1>4. Letters(a, n, j) =
               IF k > Len(a[n]) THEN [found |-> Alone(a[n], j, k), next |-> n + 1]
               ELSE [found |-> Append(Alone(a[n], j, k), OptionAt(a, n, k)),
                     next |-> NextAfter(a, n, k)]
  BY <1>1, LettersAre
<1>5. Alone(a[n], j, k) \in Found /\ Len(Alone(a[n], j, k)) = k - j
  BY <1>1, <1>2, AloneFound
<1>6. Alone(a[n], j, k) = <<>>
  <2> DEFINE f == Alone(a[n], j, k)
             T == Codes \X Texts
  <2>1. f \in Seq(T) /\ Len(f) = 0
    BY <1>1, <1>3, <1>5 DEF Found
  <2> HIDE DEF f, T
  <2>2. f = <<>>
    BY <2>1, EmptySeq
  <2> QED BY <2>2 DEF f
<1> HIDE DEF k, j
<1>7. Letters(a, n, j).found = <<>> /\ Letters(a, n, j).next = n + 1
  BY <1>3, <1>4, <1>6
<1> QED BY <1>7 DEF j

(* One letter that takes no argument.                                      *)
LEMMA LetterAlone ==
  ASSUME NEW a \in Operands, NEW n \in 1..Len(a), NEW j \in 1..Len(a[n]),
         a[n][j] \notin TakeArgument
  PROVE  /\ Letters(a, n, j).found = <<<<Known(a[n][j]), <<>>>>>> \o Letters(a, n, j + 1).found
         /\ Letters(a, n, j).next = Letters(a, n, j + 1).next
<1> DEFINE k == ArgumentAt(a[n], j)
           f == <<<<Known(a[n][j]), <<>>>>>>
           rest == Alone(a[n], j + 1, k)
<1>1. /\ a[n] \in Texts /\ Len(a[n]) \in Nat /\ n \in Nat
      /\ j \in 1..Len(a[n]) + 1 /\ j + 1 \in 1..Len(a[n]) + 1
  BY DEF Operands, Texts
<1>2. k = ArgumentAt(a[n], j + 1) /\ k \in j + 1..Len(a[n]) + 1
  BY <1>1, ArgumentAtNext, ArgumentAtIs
<1>3. Alone(a[n], j, k) = f \o rest
  BY <1>1, <1>2, AloneNext
<1>4. /\ Letters(a, n, j) =
               IF k > Len(a[n]) THEN [found |-> Alone(a[n], j, k), next |-> n + 1]
               ELSE [found |-> Append(Alone(a[n], j, k), OptionAt(a, n, k)),
                     next |-> NextAfter(a, n, k)]
  BY <1>1, LettersAre
<1>5. /\ Letters(a, n, j + 1) =
               IF k > Len(a[n]) THEN [found |-> rest, next |-> n + 1]
               ELSE [found |-> Append(rest, OptionAt(a, n, k)), next |-> NextAfter(a, n, k)]
  BY <1>1, <1>2, LettersAre
<1>6. f \in Found /\ rest \in Found /\ <<>> \in Found
  <2>1. a[n][j] \in STRING
    BY <1>1 DEF Texts
  <2>2. <<Known(a[n][j]), <<>>>> \in Codes \X Texts
    BY <2>1, KnownFound
  <2>3. rest \in Found
    BY <1>1, <1>2, AloneFound
  <2> QED BY <2>2, <2>3, FoundAppend, FoundConcat
<1> HIDE DEF k, f, rest
<1>7. CASE k > Len(a[n])
  BY <1>3, <1>4, <1>5, <1>7 DEF f
<1>8. CASE ~ (k > Len(a[n]))
  <2> DEFINE r == OptionAt(a, n, k)
  <2>1. r \in Codes \X Texts
    <3>1. k \in 1..Len(a[n])
      BY <1>1, <1>2, <1>8
    <3> QED BY <3>1, OptionAtFound
  <2> HIDE DEF r
  <2>2. Append(f \o rest, r) = f \o Append(rest, r)
    <3>1. f \o rest \in Found /\ <<r>> \in Found
      BY <1>6, <2>1, FoundAppend, FoundConcat
    <3>2. Append(f \o rest, r) = (f \o rest) \o <<r>> /\ Append(rest, r) = rest \o <<r>>
      BY <1>6, <2>1, <3>1, FoundAppend
    <3>3. (f \o rest) \o <<r>> = f \o (rest \o <<r>>)
      BY <1>6, <3>1, FoundAssociative
    <3> QED BY <3>2, <3>3
  <2>3. /\ Letters(a, n, j).found = Append(f \o rest, r)
        /\ Letters(a, n, j).next = NextAfter(a, n, k)
        /\ Letters(a, n, j + 1).found = Append(rest, r)
        /\ Letters(a, n, j + 1).next = NextAfter(a, n, k)
    BY <1>3, <1>4, <1>5, <1>8 DEF r
  <2> QED BY <2>2, <2>3 DEF f
<1> QED BY <1>7, <1>8

(* One that takes one.                                                     *)
LEMMA LetterTakes ==
  ASSUME NEW a \in Operands, NEW n \in 1..Len(a), NEW j \in 1..Len(a[n]),
         a[n][j] \in TakeArgument
  PROVE  /\ Letters(a, n, j).found = <<OptionAt(a, n, j)>>
         /\ Letters(a, n, j).next = NextAfter(a, n, j)
<1> DEFINE alone == Alone(a[n], j, j)
<1>1. a[n] \in Texts /\ Len(a[n]) \in Nat /\ j \in 1..Len(a[n]) + 1
  BY DEF Operands, Texts
<1>2. ArgumentAt(a[n], j) = j /\ ~ (j > Len(a[n]))
  BY <1>1, ArgumentAtNext
<1>3. Letters(a, n, j) = [found |-> Append(alone, OptionAt(a, n, j)), next |-> NextAfter(a, n, j)]
  BY <1>1, <1>2, LettersAre
<1>4. alone = <<>>
  <2> DEFINE T == Codes \X Texts
  <2>1. j \in j..Len(a[n]) + 1 /\ j - j = 0
    BY <1>1
  <2>2. alone \in Seq(T) /\ Len(alone) = 0
    BY <1>1, <2>1, AloneFound DEF Found
  <2> HIDE DEF alone, T
  <2> QED BY <2>2, EmptySeq
<1> HIDE DEF alone
<1>5. Append(alone, OptionAt(a, n, j)) = <<OptionAt(a, n, j)>>
  <2>1. OptionAt(a, n, j) \in Codes \X Texts
    BY OptionAtFound
  <2> DEFINE r == OptionAt(a, n, j)
  <2> HIDE DEF r
  <2>2. \A x : Append(<<>>, x) = <<x>>
    OBVIOUS
  <2> QED BY <1>4, <2>2
<1> QED BY <1>3, <1>5

----------------------------------------------------------------------------
(* The readings of a command line, from the last element to the first.     *)

(* Operands before and after.                                              *)
LEMMA OperandsConcat ==
  ASSUME NEW f \in Operands, NEW g \in Operands
  PROVE  f \o g \in Operands /\ <<>> \in Operands /\ <<>> \o f = f /\ f \o <<>> = f
BY ConcatProperties, ConcatEmptySeq DEF Operands

(* In which order they are joined does not matter.                         *)
LEMMA OperandsAssociative ==
  ASSUME NEW f \in Operands, NEW g \in Operands, NEW h \in Operands
  PROVE  (f \o g) \o h = f \o (g \o h)
BY ConcatAssociative DEF Operands

(* A part of a command line.                                               *)
LEMMA OperandsPart ==
  ASSUME NEW a \in Operands, NEW m \in Nat \ {0}, NEW n \in Nat, n <= Len(a)
  PROVE  /\ SubSeq(a, m, n) \in Operands
         /\ Len(SubSeq(a, m, n)) = IF m <= n THEN n - m + 1 ELSE 0
         /\ \A k \in 1..n - m + 1 : SubSeq(a, m, n)[k] = a[m + k - 1]
<1>1. m \in Int /\ n \in Int /\ \A k \in m..n : a[k] \in Texts
  BY DEF Operands
<1> QED BY <1>1, SubSeqProperties DEF Operands

(* What is read from an element depends on the later ones only.            *)
LEMMA ReadTyped ==
  ASSUME NEW a \in Operands, NEW order, NEW n \in 1..Len(a) + 1, NEW f,
         \A m \in n + 1..Len(a) + 1 : f[m] \in Read
  PROVE  /\ ReadFrom(a, order, n, f) \in Read
         /\ \A g : (\A m \in n + 1..Len(a) + 1 : g[m] = f[m]) =>
                     ReadFrom(a, order, n, g) = ReadFrom(a, order, n, f)
<1>1. Len(a) \in Nat /\ n \in Nat /\ <<>> \in Operands /\ <<>> \in Found
  BY DEF Operands, Found
<1>2. [found |-> <<>>, operands |-> <<>>] \in Read
  BY <1>1 DEF Read
<1>3. CASE n > Len(a)
  BY <1>2, <1>3 DEF ReadFrom
<1>4. CASE ~ (n > Len(a)) /\ a[n] = <<"-", "-">>
  <2>1. SubSeq(a, n + 1, Len(a)) \in Operands
    BY <1>1, OperandsPart
  <2>2. [found |-> <<>>, operands |-> SubSeq(a, n + 1, Len(a))] \in Read
    BY <1>1, <2>1 DEF Read
  <2> QED BY <1>4, <2>2 DEF ReadFrom
<1>5. CASE ~ (n > Len(a)) /\ a[n] # <<"-", "-">> /\ IsOption(a[n])
  <2> DEFINE l == Letters(a, n, 2)
  <2>1. n \in 1..Len(a) /\ 2 \in 1..Len(a[n]) + 1
    <3>1. a[n] \in Texts
      BY <1>1, <1>5 DEF Operands
    <3>2. Len(a[n]) \in Nat /\ Len(a[n]) >= 2
      BY <1>5, <3>1 DEF Texts, IsOption
    <3> QED BY <1>1, <1>5, <3>2
  <2>2. l.found \in Found /\ l.next \in n + 1..Len(a) + 1
    BY <2>1, LettersTyped
  <2> HIDE DEF l
  <2>3. \A g : ReadFrom(a, order, n, g) = [g[l.next] EXCEPT !.found = l.found \o @]
    BY <1>5 DEF ReadFrom, l
  <2>4. f[l.next] \in Read
    BY <2>2
  <2>5. f[l.next].found \in Found
    BY <2>4 DEF Read
  <2>6. l.found \o f[l.next].found \in Found
    BY <2>2, <2>5, FoundConcat
  <2>7. [f[l.next] EXCEPT !.found = l.found \o @] \in Read
    BY <2>4, <2>6 DEF Read
  <2> QED BY <2>2, <2>3, <2>7
<1>6. CASE /\ ~ (n > Len(a)) /\ a[n] # <<"-", "-">> /\ ~ IsOption(a[n])
           /\ order = "PERMUTE"
  <2>1. n + 1 \in n + 1..Len(a) + 1 /\ a[n] \in Texts
    BY <1>1, <1>6 DEF Operands
  <2>2. \A g : ReadFrom(a, order, n, g) = [g[n + 1] EXCEPT !.operands = <<a[n]>> \o @]
    BY <1>6 DEF ReadFrom
  <2>3. f[n + 1] \in Read
    BY <2>1
  <2>4. f[n + 1].operands \in Operands
    BY <2>3 DEF Read
  <2>5. <<a[n]>> \in Operands
    BY <2>1 DEF Operands
  <2>6. <<a[n]>> \o f[n + 1].operands \in Operands
    BY <2>4, <2>5, OperandsConcat
  <2>7. [f[n + 1] EXCEPT !.operands = <<a[n]>> \o @] \in Read
    BY <2>3, <2>6 DEF Read
  <2> QED BY <2>1, <2>2, <2>7
<1>7. CASE /\ ~ (n > Len(a)) /\ a[n] # <<"-", "-">> /\ ~ IsOption(a[n])
           /\ order # "PERMUTE"
  <2>1. SubSeq(a, n, Len(a)) \in Operands
    BY <1>1, OperandsPart
  <2>2. [found |-> <<>>, operands |-> SubSeq(a, n, Len(a))] \in Read
    BY <1>1, <2>1 DEF Read
  <2> QED BY <1>7, <2>2 DEF ReadFrom
<1> QED BY <1>3, <1>4, <1>5, <1>6, <1>7

(* The recursion has a solution.                                           *)
LEMMA ReadingsExist ==
  ASSUME NEW a \in Operands, NEW order
  PROVE  \E f : f = [n \in 1..Len(a) + 1 |-> ReadFrom(a, order, n, f)]
<1> DEFINE L == Len(a)
           Solves(f, d) == \A n \in L + 1 - d..L + 1 : f[n] = ReadFrom(a, order, n, f)
           S == {d \in Nat : d <= L => \E f \in [1..L + 1 -> Read] : Solves(f, d)}
<1>1. L \in Nat
  BY DEF Operands
<1>2. 0 \in S
  <2> DEFINE f == [n \in 1..L + 1 |-> [found |-> <<>>, operands |-> <<>>]]
  <2>1. <<>> \in Operands /\ <<>> \in Found
    BY DEF Operands, Found
  <2>2. f \in [1..L + 1 -> Read]
    BY <2>1 DEF Read
  <2>3. ASSUME NEW n \in L + 1 - 0..L + 1
        PROVE  f[n] = ReadFrom(a, order, n, f)
    <3>1. n > Len(a) /\ n \in 1..L + 1
      BY <1>1, <2>3
    <3>2. ReadFrom(a, order, n, f) = [found |-> <<>>, operands |-> <<>>]
      BY <3>1 DEF ReadFrom
    <3> QED BY <3>1, <3>2
  <2> HIDE DEF f
  <2> QED BY <2>2, <2>3
<1>3. ASSUME NEW d \in Nat, d \in S
      PROVE  d + 1 \in S
  <2> SUFFICES ASSUME d + 1 <= L
               PROVE  \E f \in [1..L + 1 -> Read] : Solves(f, d + 1)
    OBVIOUS
  <2>1. PICK f \in [1..L + 1 -> Read] : Solves(f, d)
    BY <1>1, <1>3
  <2> DEFINE k == L - d
             g == [f EXCEPT ![k] = ReadFrom(a, order, k, f)]
  <2>2. k \in 1..L + 1 /\ k \in Nat /\ L + 1 - (d + 1) = k /\ L + 1 - d = k + 1
    BY <1>1
  <2> HIDE DEF k
  <2>3. \A n \in 1..Len(a) + 1 : f[n] \in Read
    OBVIOUS
  <2>4. ReadFrom(a, order, k, f) \in Read
    <3>1. \A m \in k + 1..Len(a) + 1 : f[m] \in Read
      BY <1>1, <2>2, <2>3
    <3> QED BY <2>2, <3>1, ReadTyped
  <2>5. g \in [1..L + 1 -> Read] /\ g[k] = ReadFrom(a, order, k, f)
        /\ \A m \in k + 1..L + 1 : g[m] = f[m]
    BY <1>1, <2>2, <2>4
  <2> HIDE DEF g
  <2>6. ASSUME NEW n \in k..L + 1
        PROVE  g[n] = ReadFrom(a, order, n, g)
    <3>1. n \in 1..Len(a) + 1 /\ \A m \in n + 1..Len(a) + 1 : f[m] \in Read /\ g[m] = f[m]
      BY <1>1, <2>2, <2>3, <2>5
    <3>2. ReadFrom(a, order, n, g) = ReadFrom(a, order, n, f)
      BY <3>1, ReadTyped
    <3>3. CASE n = k
      BY <2>5, <3>2, <3>3
    <3>4. CASE n # k
      <4>1. n \in k + 1..L + 1
        BY <1>1, <2>2, <3>4
      <4>2. f[n] = ReadFrom(a, order, n, f)
        BY <2>1, <2>2, <4>1
      <4> QED BY <2>5, <3>2, <4>1, <4>2
    <3> QED BY <3>3, <3>4
  <2>7. Solves(g, d + 1)
    BY <2>2, <2>6
  <2> QED BY <2>5, <2>7
<1>4. \A d \in Nat : d \in S
  <2> HIDE DEF S
  <2> QED BY <1>2, <1>3, Induction
<1>5. PICK f \in [1..L + 1 -> Read] : Solves(f, L)
  BY <1>1, <1>4
<1>6. \A n \in 1..L + 1 : f[n] = ReadFrom(a, order, n, f)
  <2>1. L + 1 - L = 1
    BY <1>1
  <2> QED BY <1>5, <2>1
<1>7. f = [n \in 1..L + 1 |-> f[n]]
  OBVIOUS
<1> HIDE DEF L
<1>8. f = [n \in 1..L + 1 |-> ReadFrom(a, order, n, f)]
  BY <1>6, <1>7
<1> QED BY <1>8 DEF L

(* Readings solves it, so each element is read from the later ones.        *)
LEMMA ReadingsStep ==
  ASSUME NEW a \in Operands, NEW order, NEW n \in 1..Len(a) + 1
  PROVE  Readings(a, order)[n] = ReadFrom(a, order, n, Readings(a, order))
<1> DEFINE Solves(f) == f = [k \in 1..Len(a) + 1 |-> ReadFrom(a, order, k, f)]
<1>1. \E f : Solves(f)
  BY ReadingsExist
<1>2. Readings(a, order) = CHOOSE f : Solves(f)
  BY DEF Readings
<1>3. Solves(Readings(a, order))
  <2> HIDE DEF Solves
  <2> QED BY <1>1, <1>2
<1> DEFINE R == Readings(a, order)
<1>4. R = [k \in 1..Len(a) + 1 |-> ReadFrom(a, order, k, R)]
  BY <1>3
<1> HIDE DEF R
<1>5. R[n] = ReadFrom(a, order, n, R)
  BY <1>4
<1> QED BY <1>5 DEF R

(* What is read.                                                           *)
LEMMA ReadingsTyped ==
  ASSUME NEW a \in Operands, NEW order
  PROVE  \A n \in 1..Len(a) + 1 : Readings(a, order)[n] \in Read
<1> DEFINE L == Len(a)
           R == Readings(a, order)
           S == {d \in Nat : d <= L => \A n \in L + 1 - d..L + 1 : R[n] \in Read}
<1>1. L \in Nat
  BY DEF Operands
<1>2. ASSUME NEW n \in 1..L + 1, \A m \in n + 1..L + 1 : R[m] \in Read
      PROVE  R[n] \in Read
  <2>1. R[n] = ReadFrom(a, order, n, R)
    BY ReadingsStep
  <2> HIDE DEF R
  <2> QED BY <1>2, <2>1, ReadTyped
<1> HIDE DEF R
<1>3. 0 \in S
  <2> SUFFICES ASSUME NEW n \in L + 1 - 0..L + 1 PROVE R[n] \in Read
    OBVIOUS
  <2>1. n \in 1..L + 1 /\ \A m \in n + 1..L + 1 : R[m] \in Read
    BY <1>1
  <2> QED BY <1>2, <2>1
<1>4. ASSUME NEW d \in Nat, d \in S
      PROVE  d + 1 \in S
  <2> SUFFICES ASSUME d + 1 <= L, NEW n \in L + 1 - (d + 1)..L + 1 PROVE R[n] \in Read
    OBVIOUS
  <2>1. \A m \in L + 1 - d..L + 1 : R[m] \in Read
    BY <1>1, <1>4
  <2>2. n \in 1..L + 1 /\ \A m \in n + 1..L + 1 : R[m] \in Read
    BY <1>1, <2>1
  <2> QED BY <1>2, <2>2
<1>5. \A d \in Nat : d \in S
  <2> HIDE DEF S
  <2> QED BY <1>3, <1>4, Induction
<1>6. ASSUME NEW n \in 1..L + 1
      PROVE  R[n] \in Read
  <2>1. CASE n = L + 1
    <3>1. 0 \in S /\ n \in L + 1 - 0..L + 1 /\ 0 <= L
      BY <1>1, <1>5, <2>1
    <3> QED BY <3>1
  <2>2. CASE n # L + 1
    <3>1. L \in S /\ n \in L + 1 - L..L + 1
      BY <1>1, <1>5, <2>2
    <3> QED BY <1>1, <3>1
  <2> QED BY <2>1, <2>2
<1> QED BY <1>6 DEF R, L

----------------------------------------------------------------------------
(* The state of getopt, and the letter it returns.                         *)

(* getopt's state, and the operands that it has skipped since it last moved *)
(* any.                                                                    *)
Scans ==
  [argv : Operands, ordering : {"PERMUTE", "REQUIRE_ORDER"}, optind : Nat, nextchar : Texts,
   first_nonopt : Nat, last_nonopt : Nat, c : Codes \cup {"none", "EOF"}, optarg : Texts]

Skipped(s) == SubSeq(s.argv, s.first_nonopt, s.last_nonopt - 1)

(* The indices are in order, and what is not scanned yet is as it was.     *)
Positioned(a, s) ==
  /\ s \in Scans /\ Len(s.argv) = Len(a)
  /\ 1 <= s.first_nonopt /\ s.first_nonopt <= s.last_nonopt
  /\ s.last_nonopt <= s.optind /\ s.optind <= Len(a) + 1
  /\ \A k \in s.optind..Len(a) : s.argv[k] = a[k]
  /\ s.ordering = "REQUIRE_ORDER" => s.first_nonopt = s.last_nonopt

(* nextchar is what is left of the element at optind.                      *)
LetterOf(a, s) == Len(a[s.optind]) - Len(s.nextchar) + 1
Within(a, s) ==
  s.nextchar # <<>> =>
    /\ s.optind <= Len(a) /\ Len(s.nextchar) < Len(a[s.optind])
    /\ s.nextchar = SubSeq(a[s.optind], LetterOf(a, s), Len(a[s.optind]))

(* What is ahead of a scan.                                                *)
AfterLetters(a, order, n, j) ==
  LET l == Letters(a, n, j) IN Join(l.found, Readings(a, order)[l.next])
Ahead(a, s) ==
  IF s.nextchar = <<>> THEN Readings(a, s.ordering)[s.optind]
  ELSE AfterLetters(a, s.ordering, s.optind, LetterOf(a, s))

(* The letter at the head of nextchar.                                     *)
LEMMA HeadIsLetter ==
  ASSUME NEW a \in Operands, NEW s, Positioned(a, s), Within(a, s), s.nextchar # <<>>
  PROVE  LET e == a[s.optind]
             j == LetterOf(a, s)
         IN  /\ s.optind \in 1..Len(a) /\ e \in Texts /\ j \in 2..Len(e) /\ Len(e) \in Nat
             /\ Head(s.nextchar) = e[j] /\ e[j] \in STRING
             /\ Tail(s.nextchar) = SubSeq(e, j + 1, Len(e))
             /\ Tail(s.nextchar) \in Texts /\ Len(Tail(s.nextchar)) = Len(e) - j
             /\ Tail(s.nextchar) = <<>> <=> j = Len(e)
<1> DEFINE e == a[s.optind]
           j == LetterOf(a, s)
           w == s.nextchar
<1>1. s.optind \in 1..Len(a) /\ w \in Texts /\ w # <<>>
  BY DEF Positioned, Within, Scans, Operands
<1>2. e \in Texts /\ Len(e) \in Nat
  BY <1>1 DEF Operands, Texts
<1>3. /\ Len(w) \in Nat \ {0} /\ Len(w) < Len(e)
      /\ j = Len(e) - Len(w) + 1
  <2>1. Len(w) \in Nat \ {0}
    BY <1>1, EmptySeq DEF Texts
  <2>2. Len(w) < Len(e)
    BY <1>1 DEF Within
  <2>3. j = Len(e) - Len(w) + 1
    BY DEF LetterOf
  <2> QED BY <2>1, <2>2, <2>3
<1>4. w = SubSeq(e, j, Len(e))
  BY <1>1 DEF Within
<1> HIDE DEF e, j, w
<1>5. j \in 2..Len(e)
  BY <1>2, <1>3
<1>6. Head(w) = e[j] /\ Tail(w) = SubSeq(e, j + 1, Len(e))
  <2>1. j \in 1..Len(e) /\ Len(e) \in j..Len(e) /\ e \in Seq(STRING)
    BY <1>2, <1>5 DEF Texts
  <2>2. Head(SubSeq(e, j, Len(e))) = e[j]
        /\ Tail(SubSeq(e, j, Len(e))) = SubSeq(e, j + 1, Len(e))
    BY <2>1, HeadTailOfSubSeq
  <2> QED BY <1>4, <2>2
<1>7. e[j] \in STRING
  BY <1>2, <1>5 DEF Texts
<1> DEFINE v == Tail(w)
<1>8. v \in Texts /\ Len(v) = Len(w) - 1
  <2>1. w \in Seq(STRING) /\ w # <<>>
    BY <1>1 DEF Texts
  <2>2. v \in Seq(STRING) /\ Len(v) = Len(w) - 1
    BY <2>1, HeadTailProperties
  <2> HIDE DEF v
  <2> QED BY <2>2 DEF Texts
<1> HIDE DEF v
<1>9. Len(v) = Len(e) - j
  BY <1>2, <1>3, <1>8
<1>10. v = <<>> <=> j = Len(e)
  <2>1. v \in Seq(STRING)
    BY <1>8 DEF Texts
  <2>2. v = <<>> <=> Len(v) = 0
    BY <2>1, EmptySeq
  <2> QED BY <1>2, <1>5, <1>9, <2>2
<1> QED BY <1>1, <1>2, <1>5, <1>6, <1>7, <1>8, <1>9, <1>10 DEF e, j, w, v

(* The scan at another place, with another result.                         *)
MovedTo(s, n, w, c, o) == [s EXCEPT !.optind = n, !.nextchar = w, !.c = c, !.optarg = o]

(* A step of the scan that leaves argv and the skipped operands alone.     *)
LEMMA Moved ==
  ASSUME NEW a \in Operands, NEW s, Positioned(a, s), NEW n \in s.optind..Len(a) + 1,
         NEW w \in Texts, NEW c \in Codes, NEW o \in Texts
  PROVE  LET t == MovedTo(s, n, w, c, o)
         IN  /\ Positioned(a, t) /\ Skipped(t) = Skipped(s) /\ t.ordering = s.ordering
             /\ t.optind = n /\ t.nextchar = w /\ t.c = c /\ t.optarg = o
<1> DEFINE t == MovedTo(s, n, w, c, o)
<1>1. s \in Scans /\ s.optind \in Nat /\ Len(a) \in Nat /\ n \in Nat /\ s.optind <= n
      /\ n <= Len(a) + 1
  BY DEF Positioned, Scans, Operands
<1>2. /\ t \in Scans /\ t.argv = s.argv /\ t.ordering = s.ordering
      /\ t.first_nonopt = s.first_nonopt /\ t.last_nonopt = s.last_nonopt
      /\ t.optind = n /\ t.nextchar = w /\ t.c = c /\ t.optarg = o
  BY <1>1 DEF Scans, MovedTo
<1> HIDE DEF t
<1>3. s.last_nonopt \in Nat
  BY <1>1 DEF Scans
<1>4. Positioned(a, t)
  BY <1>1, <1>2, <1>3 DEF Positioned
<1>5. Skipped(t) = Skipped(s)
  BY <1>2 DEF Skipped
<1> QED BY <1>2, <1>4, <1>5 DEF t

(* What NextOption makes of the scan.                                      *)
LEMMA NextOptionMoves ==
  ASSUME NEW a \in Operands, NEW s, Positioned(a, s), Within(a, s), s.nextchar # <<>>,
         s.optarg = <<>>
  PROVE  LET e == a[s.optind]
             j == LetterOf(a, s)
         IN  NextOption(s) =
               IF e[j] \notin TakeArgument
               THEN MovedTo(s, IF j = Len(e) THEN s.optind + 1 ELSE s.optind, Tail(s.nextchar),
                            Known(e[j]), <<>>)
               ELSE MovedTo(s, NextAfter(a, s.optind, j), <<>>,
                       OptionAt(a, s.optind, j)[1], OptionAt(a, s.optind, j)[2])
<1> DEFINE e == a[s.optind]
           j == LetterOf(a, s)
           rest == Tail(s.nextchar)
           t == [s EXCEPT !.nextchar = rest, !.optind = IF rest = <<>> THEN @ + 1 ELSE @]
<1>1. /\ s.optind \in 1..Len(a) /\ j \in 2..Len(e) /\ Len(e) \in Nat /\ Len(a) \in Nat
      /\ Head(s.nextchar) = e[j]
      /\ rest = SubSeq(e, j + 1, Len(e))
      /\ rest = <<>> <=> j = Len(e)
  <2>1. Len(a) \in Nat
    BY DEF Operands
  <2>2. /\ s.optind \in 1..Len(a) /\ j \in 2..Len(e) /\ Len(e) \in Nat
        /\ Head(s.nextchar) = e[j] /\ rest = SubSeq(e, j + 1, Len(e))
        /\ rest = <<>> <=> j = Len(e)
    BY HeadIsLetter
  <2> QED BY <2>1, <2>2
<1>2. /\ s \in Scans /\ Len(s.argv) = Len(a) /\ s.optarg = <<>>
      /\ \A k \in s.optind..Len(a) : s.argv[k] = a[k]
  BY DEF Positioned
<1>3. NextOption(s) =
        IF e[j] \in Flags THEN [t EXCEPT !.c = e[j]]
        ELSE IF e[j] \notin TakeArgument THEN [t EXCEPT !.c = "?"]
        ELSE IF rest # <<>>
             THEN [t EXCEPT !.c = e[j], !.optarg = rest, !.optind = @ + 1, !.nextchar = <<>>]
        ELSE IF t.optind = argc(t) THEN [t EXCEPT !.c = "?"]
        ELSE [t EXCEPT !.c = e[j], !.optarg = s.argv[t.optind], !.optind = @ + 1]
  <2> DEFINE h == Head(s.nextchar)
  <2>1. NextOption(s) =
          IF h \in Flags THEN [t EXCEPT !.c = h]
          ELSE IF h \notin TakeArgument THEN [t EXCEPT !.c = "?"]
          ELSE IF rest # <<>>
               THEN [t EXCEPT !.c = h, !.optarg = rest, !.optind = @ + 1, !.nextchar = <<>>]
          ELSE IF t.optind = argc(t) THEN [t EXCEPT !.c = "?"]
          ELSE [t EXCEPT !.c = h, !.optarg = s.argv[t.optind], !.optind = @ + 1]
    BY Zenon DEF NextOption
  <2>2. h = e[j]
    BY <1>1
  <2> HIDE DEF h, e, j, t, rest
  <2> QED BY <2>1, <2>2
<1>4. Flags \cap TakeArgument = {}
  BY GetoptAssumption
<1> HIDE DEF e, j, rest
<1>5. CASE e[j] \notin TakeArgument
  <2>1. NextOption(s) = [t EXCEPT !.c = Known(e[j])]
    BY <1>3, <1>5 DEF Known
  <2>2. t = [s EXCEPT !.nextchar = rest, !.optind = IF j = Len(e) THEN s.optind + 1 ELSE s.optind]
    BY <1>1
  <2>3. NextOption(s) =
          MovedTo(s, IF j = Len(e) THEN s.optind + 1 ELSE s.optind, rest, Known(e[j]), <<>>)
    BY <1>2, <2>1, <2>2 DEF Scans, MovedTo
  <2> QED BY <1>5, <2>3 DEF e, j, rest
<1>6. CASE e[j] \in TakeArgument /\ j < Len(e)
  <2>1. e[j] \notin Flags /\ rest # <<>> /\ j # Len(e)
    BY <1>1, <1>4, <1>6
  <2>2. NextOption(s) = [t EXCEPT !.c = e[j], !.optarg = rest, !.optind = @ + 1, !.nextchar = <<>>]
    BY <1>3, <1>6, <2>1
  <2>3. NextOption(s) = MovedTo(s, s.optind + 1, <<>>, e[j], rest)
    BY <1>2, <2>1, <2>2 DEF Scans, MovedTo
  <2>4. NextAfter(a, s.optind, j) = s.optind + 1
        /\ OptionAt(a, s.optind, j) = <<e[j], rest>>
    BY <1>1, <1>6, <2>1 DEF NextAfter, OptionAt, e
  <2> QED BY <1>6, <2>3, <2>4 DEF e, j, rest
<1>7. CASE e[j] \in TakeArgument /\ j = Len(e) /\ s.optind = Len(a)
  <2>1. e[j] \notin Flags /\ rest = <<>> /\ ~ (j < Len(e))
    BY <1>1, <1>4, <1>7
  <2>2. t = [s EXCEPT !.nextchar = <<>>, !.optind = s.optind + 1]
    BY <2>1
  <2>3. t.optind = argc(t)
    BY <1>2, <1>7, <2>2 DEF argc, Scans
  <2>4. NextOption(s) = [t EXCEPT !.c = "?"]
    BY <1>3, <1>7, <2>1, <2>3
  <2>5. NextOption(s) = MovedTo(s, s.optind + 1, <<>>, "?", <<>>)
    BY <1>2, <2>2, <2>4 DEF Scans, MovedTo
  <2>6. NextAfter(a, s.optind, j) = s.optind + 1 /\ OptionAt(a, s.optind, j) = <<"?", <<>>>>
    <3>1. ~ (s.optind < Len(a)) /\ ~ (j < Len(a[s.optind]))
      BY <1>1, <1>7, <2>1 DEF e
    <3>2. NextAfter(a, s.optind, j) = s.optind + 1
      BY <3>1 DEF NextAfter
    <3>3. OptionAt(a, s.optind, j) = <<"?", <<>>>>
      BY Zenon, <1>7, <3>1 DEF OptionAt
    <3> QED BY <3>2, <3>3
  <2>7. OptionAt(a, s.optind, j)[1] = "?" /\ OptionAt(a, s.optind, j)[2] = <<>>
    BY <2>6
  <2>8. NextOption(s) = MovedTo(s, NextAfter(a, s.optind, j), <<>>,
                           OptionAt(a, s.optind, j)[1], OptionAt(a, s.optind, j)[2])
    BY <2>5, <2>6, <2>7
  <2> QED BY <1>7, <2>8 DEF e, j
<1>8. CASE e[j] \in TakeArgument /\ j = Len(e) /\ s.optind # Len(a)
  <2>1. e[j] \notin Flags /\ rest = <<>> /\ ~ (j < Len(e))
        /\ s.optind + 1 \in s.optind..Len(a)
    BY <1>1, <1>4, <1>8
  <2>2. t = [s EXCEPT !.nextchar = <<>>, !.optind = s.optind + 1]
    BY <2>1
  <2>3. t.optind # argc(t) /\ t.optind = s.optind + 1
    BY <1>1, <1>2, <1>8, <2>2 DEF argc, Scans
  <2>4. NextOption(s) = [t EXCEPT !.c = e[j], !.optarg = a[s.optind + 1], !.optind = @ + 1]
    BY <1>2, <1>3, <1>8, <2>1, <2>3
  <2>5. NextOption(s) = MovedTo(s, s.optind + 2, <<>>, e[j], a[s.optind + 1])
    <3>1. (s.optind + 1) + 1 = s.optind + 2
      BY <1>1
    <3> QED BY <1>2, <2>2, <2>4, <3>1 DEF Scans, MovedTo
  <2>6. /\ NextAfter(a, s.optind, j) = s.optind + 2
        /\ OptionAt(a, s.optind, j) = <<e[j], a[s.optind + 1]>>
    BY <1>1, <1>8, <2>1 DEF NextAfter, OptionAt, e
  <2> QED BY <1>8, <2>5, <2>6 DEF e, j, rest
<1> QED BY <1>1, <1>5, <1>6, <1>7, <1>8

(* What joins what is read is read.                                        *)
LEMMA JoinRead ==
  ASSUME NEW f \in Found, NEW g \in Found, NEW r \in Read
  PROVE  /\ Join(f, r) \in Read /\ Join(<<>>, r) = r
         /\ Join(f, r).found = f \o r.found /\ Join(f, r).operands = r.operands
         /\ Join(f, Join(g, r)) = Join(f \o g, r)
<1>1. r.found \in Found /\ r.operands \in Operands
      /\ r = [found |-> r.found, operands |-> r.operands]
  BY DEF Read
<1>2. Join(f, r) \in Read
  <2>1. f \o r.found \in Found
    BY <1>1, FoundConcat
  <2> QED BY <1>1, <2>1 DEF Join, Read
<1>3. Join(<<>>, r) = r
  <2>1. <<>> \o r.found = r.found
    BY <1>1, FoundConcat
  <2> QED BY <1>1, <2>1 DEF Join
<1>4. Join(f, r).found = f \o r.found /\ Join(f, r).operands = r.operands
  BY DEF Join
<1>5. Join(f, Join(g, r)) = Join(f \o g, r)
  <2>1. (f \o g) \o r.found = f \o (g \o r.found)
    BY <1>1, FoundAssociative
  <2>2. Join(g, r).found = g \o r.found /\ Join(g, r).operands = r.operands
    BY DEF Join
  <2> QED BY <2>1, <2>2 DEF Join
<1> QED BY <1>2, <1>3, <1>4, <1>5

(* The three ways in which the letters of an element go on.                *)
LEMMA AfterLettersTyped ==
  ASSUME NEW a \in Operands, NEW order, NEW n \in 1..Len(a), NEW j \in 1..Len(a[n]) + 1
  PROVE  AfterLetters(a, order, n, j) \in Read
<1> DEFINE l == Letters(a, n, j)
           r == Readings(a, order)[l.next]
<1>1. l.found \in Found /\ l.next \in n + 1..Len(a) + 1
  BY LettersTyped
<1>2. l.next \in 1..Len(a) + 1
  <2>1. Len(a) \in Nat
    BY DEF Operands
  <2> HIDE DEF l
  <2> QED BY <1>1, <2>1
<1>3. r \in Read
  <2> HIDE DEF l
  <2> QED BY <1>2, ReadingsTyped
<1>4. AfterLetters(a, order, n, j) = Join(l.found, r)
  BY DEF AfterLetters
<1> HIDE DEF l, r
<1> QED BY <1>1, <1>3, <1>4, JoinRead

(* Behind the last letter the next element is read.                        *)
LEMMA AfterLast ==
  ASSUME NEW a \in Operands, NEW order, NEW n \in 1..Len(a)
  PROVE  AfterLetters(a, order, n, Len(a[n]) + 1) = Readings(a, order)[n + 1]
<1> DEFINE l == Letters(a, n, Len(a[n]) + 1)
<1>1. l.found = <<>> /\ l.next = n + 1
  BY NoLetters
<1>2. AfterLetters(a, order, n, Len(a[n]) + 1) = Join(l.found, Readings(a, order)[l.next])
  BY DEF AfterLetters
<1>3. Readings(a, order)[n + 1] \in Read /\ <<>> \in Found
  <2>1. n + 1 \in 1..Len(a) + 1 /\ <<>> \in Found
    BY DEF Operands, Found
  <2> QED BY <2>1, ReadingsTyped
<1> DEFINE r == Readings(a, order)[n + 1]
<1> HIDE DEF l, r
<1>4. Join(<<>>, r) = r
  BY <1>3, JoinRead DEF r
<1> QED BY <1>1, <1>2, <1>4 DEF r

(* A letter without an argument is found, and the letters after it are     *)
(* read.                                                                   *)
LEMMA AfterAlone ==
  ASSUME NEW a \in Operands, NEW order, NEW n \in 1..Len(a), NEW j \in 1..Len(a[n]),
         a[n][j] \notin TakeArgument
  PROVE  AfterLetters(a, order, n, j) =
           Join(<<<<Known(a[n][j]), <<>>>>>>, AfterLetters(a, order, n, j + 1))
<1> DEFINE l == Letters(a, n, j)
           m == Letters(a, n, j + 1)
           f == <<<<Known(a[n][j]), <<>>>>>>
           r == Readings(a, order)[m.next]
<1>1. l.found = f \o m.found /\ l.next = m.next
  BY LetterAlone
<1>2. a[n] \in Texts /\ Len(a[n]) \in Nat /\ Len(a) \in Nat
  BY DEF Operands, Texts
<1>3. m.found \in Found /\ m.next \in 1..Len(a) + 1
  <2>1. j + 1 \in 1..Len(a[n]) + 1
    BY <1>2
  <2>2. m.found \in Found /\ m.next \in n + 1..Len(a) + 1
    BY <2>1, LettersTyped
  <2> HIDE DEF m
  <2> QED BY <1>2, <2>2
<1>4. f \in Found
  <2>1. a[n][j] \in STRING /\ <<>> \in Found
    BY <1>2 DEF Texts, Found
  <2> QED BY <2>1, KnownFound, FoundAppend
<1>5. r \in Read
  <2> HIDE DEF m
  <2> QED BY <1>3, ReadingsTyped
<1>6. /\ AfterLetters(a, order, n, j) = Join(l.found, Readings(a, order)[l.next])
      /\ AfterLetters(a, order, n, j + 1) = Join(m.found, r)
  BY DEF AfterLetters
<1> HIDE DEF l, m, f, r
<1>7. Join(f, Join(m.found, r)) = Join(f \o m.found, r)
  BY <1>3, <1>4, <1>5, JoinRead
<1>8. Readings(a, order)[l.next] = r
  BY <1>1 DEF r
<1> QED BY <1>1, <1>6, <1>7, <1>8 DEF f

(* A letter with an argument is found, and the next element is read.       *)
LEMMA AfterTakes ==
  ASSUME NEW a \in Operands, NEW order, NEW n \in 1..Len(a), NEW j \in 1..Len(a[n]),
         a[n][j] \in TakeArgument
  PROVE  AfterLetters(a, order, n, j) =
           Join(<<OptionAt(a, n, j)>>, Readings(a, order)[NextAfter(a, n, j)])
BY LetterTakes DEF AfterLetters

(* What is ahead can be read.                                              *)
LEMMA AheadRead ==
  ASSUME NEW a \in Operands, NEW s, Positioned(a, s), Within(a, s)
  PROVE  Ahead(a, s) \in Read
<1>1. CASE s.nextchar = <<>>
  <2>1. s.optind \in 1..Len(a) + 1
    BY DEF Positioned, Scans, Operands
  <2> QED BY <1>1, <2>1, ReadingsTyped DEF Ahead
<1>2. CASE s.nextchar # <<>>
  <2> DEFINE n == s.optind
             j == LetterOf(a, s)
  <2>1. n \in 1..Len(a) /\ Len(a[n]) \in Nat /\ j \in 2..Len(a[n])
    BY <1>2, HeadIsLetter
  <2>2. Ahead(a, s) = AfterLetters(a, s.ordering, n, j)
    BY <1>2 DEF Ahead
  <2> HIDE DEF n, j
  <2>3. j \in 1..Len(a[n]) + 1
    BY <2>1
  <2> QED BY <2>1, <2>2, <2>3, AfterLettersTyped
<1> QED BY <1>1, <1>2

(* The letter that NextOption returns, with its argument, is the next that *)
(* is read, and the scan goes on with the others.                          *)
LEMMA OptionReturned ==
  ASSUME NEW a \in Operands, NEW s, Positioned(a, s), Within(a, s), s.nextchar # <<>>,
         s.optarg = <<>>
  PROVE  LET t == NextOption(s)
         IN  /\ Positioned(a, t) /\ Within(a, t) /\ t.ordering = s.ordering
             /\ Skipped(t) = Skipped(s)
             /\ t.c # "EOF" /\ <<t.c, t.optarg>> \in Codes \X Texts
             /\ Ahead(a, s) = Join(<<<<t.c, t.optarg>>>>, Ahead(a, t))
<1> DEFINE n == s.optind
           e == a[n]
           j == LetterOf(a, s)
           rest == Tail(s.nextchar)
           t == NextOption(s)
<1>1. /\ n \in 1..Len(a) /\ e \in Texts /\ j \in 2..Len(e) /\ Len(e) \in Nat
      /\ e[j] \in STRING /\ rest = SubSeq(e, j + 1, Len(e))
      /\ rest \in Texts /\ Len(rest) = Len(e) - j
      /\ rest = <<>> <=> j = Len(e)
  BY HeadIsLetter
<1>2. t = IF e[j] \notin TakeArgument
          THEN MovedTo(s, IF j = Len(e) THEN n + 1 ELSE n, rest, Known(e[j]), <<>>)
          ELSE MovedTo(s, NextAfter(a, n, j), <<>>, OptionAt(a, n, j)[1], OptionAt(a, n, j)[2])
  BY NextOptionMoves
<1>3. Ahead(a, s) = AfterLetters(a, s.ordering, n, j)
  BY DEF Ahead
<1>4. Len(a) \in Nat /\ <<>> \in Texts /\ j \in 1..Len(e) /\ n \in n..Len(a) + 1
      /\ n + 1 \in n..Len(a) + 1
  <2>1. Len(a) \in Nat /\ <<>> \in Texts
    BY DEF Operands, Texts
  <2> HIDE DEF e, n, j
  <2> QED BY <1>1, <2>1
<1>5. /\ Flags \cap TakeArgument = {} /\ "EOF" \notin Flags /\ "EOF" \notin TakeArgument
  BY GetoptAssumption
<1>9. n = s.optind
  OBVIOUS
<1> HIDE DEF t, rest, j, e, n
<1>10. rest \in Texts /\ <<>> \in Texts /\ n \in s.optind..Len(a) + 1
       /\ n + 1 \in s.optind..Len(a) + 1
  BY <1>1, <1>4, <1>9
<1>6. CASE e[j] \notin TakeArgument /\ j # Len(e)
  <2>1. Known(e[j]) \in Codes /\ Known(e[j]) # "EOF"
    BY <1>1, <1>5 DEF Known, Codes
  <2>2. t = MovedTo(s, n, rest, Known(e[j]), <<>>)
    BY <1>2, <1>6
  <2>3. /\ Positioned(a, t) /\ Skipped(t) = Skipped(s) /\ t.ordering = s.ordering
        /\ t.optind = n /\ t.nextchar = rest /\ t.c = Known(e[j]) /\ t.optarg = <<>>
    BY <1>10, <2>1, <2>2, Moved
  <2>4. Len(rest) < Len(e) /\ Len(e) - Len(rest) + 1 = j + 1 /\ rest # <<>> /\ n <= Len(a)
    <3>1. Len(rest) = Len(e) - j /\ Len(e) \in Nat /\ j \in 2..Len(e) /\ n \in 1..Len(a)
      BY <1>1
    <3>2. rest # <<>>
      BY <1>1, <1>6
    <3>3. Len(rest) < Len(e) /\ Len(e) - Len(rest) + 1 = j + 1 /\ n <= Len(a)
      BY <1>4, <3>1
    <3> QED BY <3>2, <3>3
  <2>5. LetterOf(a, t) = j + 1
    BY <2>3, <2>4 DEF LetterOf, e
  <2>6. Within(a, t)
    BY <1>1, <2>3, <2>4, <2>5 DEF Within, e
  <2>7. Ahead(a, t) = AfterLetters(a, s.ordering, n, j + 1)
    BY <2>3, <2>4, <2>5 DEF Ahead
  <2>8. Ahead(a, s) = Join(<<<<Known(e[j]), <<>>>>>>, Ahead(a, t))
    BY <1>1, <1>3, <1>4, <1>6, <2>7, AfterAlone DEF e
  <2>9. <<t.c, t.optarg>> \in Codes \X Texts
    BY <1>4, <2>1, <2>3
  <2> QED BY <2>1, <2>3, <2>6, <2>8, <2>9 DEF t
<1>7. CASE e[j] \notin TakeArgument /\ j = Len(e)
  <2>1. Known(e[j]) \in Codes /\ Known(e[j]) # "EOF"
    BY <1>1, <1>5 DEF Known, Codes
  <2>2. t = MovedTo(s, n + 1, rest, Known(e[j]), <<>>)
    BY <1>2, <1>7
  <2>3. /\ Positioned(a, t) /\ Skipped(t) = Skipped(s) /\ t.ordering = s.ordering
        /\ t.optind = n + 1 /\ t.nextchar = rest /\ t.c = Known(e[j]) /\ t.optarg = <<>>
    BY <1>10, <2>1, <2>2, Moved
  <2>4. rest = <<>>
    BY <1>1, <1>7
  <2>5. Within(a, t)
    BY <2>3, <2>4 DEF Within
  <2>6. Ahead(a, t) = Readings(a, s.ordering)[n + 1]
    BY <2>3, <2>4 DEF Ahead
  <2>7. AfterLetters(a, s.ordering, n, j + 1) = Readings(a, s.ordering)[n + 1]
    BY <1>1, <1>7, AfterLast DEF e
  <2>8. Ahead(a, s) = Join(<<<<Known(e[j]), <<>>>>>>, Ahead(a, t))
    BY <1>1, <1>3, <1>4, <1>7, <2>6, <2>7, AfterAlone DEF e
  <2>9. <<t.c, t.optarg>> \in Codes \X Texts
    BY <1>4, <2>1, <2>3
  <2> QED BY <2>1, <2>3, <2>5, <2>8, <2>9 DEF t
<1>8. CASE e[j] \in TakeArgument
  <2> DEFINE x == OptionAt(a, n, j)
             m == NextAfter(a, n, j)
  <2>1. x \in Codes \X Texts /\ m \in n + 1..Len(a) + 1
    BY <1>1, <1>4, OptionAtFound DEF e
  <2>2. x[1] # "EOF"
    <3>1. x[1] \in {e[j], "?"}
      BY DEF OptionAt, e
    <3> HIDE DEF x
    <3> QED BY <1>5, <1>8, <3>1
  <2> HIDE DEF x, m
  <2>3. t = MovedTo(s, m, <<>>, x[1], x[2])
    BY <1>2, <1>8 DEF x, m
  <2>4. m \in n..Len(a) + 1 /\ x[1] \in Codes /\ x[2] \in Texts /\ x = <<x[1], x[2]>>
    BY <1>1, <1>4, <2>1
  <2>5. /\ Positioned(a, t) /\ Skipped(t) = Skipped(s) /\ t.ordering = s.ordering
        /\ t.optind = m /\ t.nextchar = <<>> /\ t.c = x[1] /\ t.optarg = x[2]
    BY <1>4, <1>9, <2>3, <2>4, Moved
  <2>6. Within(a, t)
    BY <2>5 DEF Within
  <2>7. Ahead(a, t) = Readings(a, s.ordering)[m]
    BY <2>5 DEF Ahead
  <2>8. AfterLetters(a, s.ordering, n, j) = Join(<<x>>, Readings(a, s.ordering)[m])
    BY <1>1, <1>4, <1>8, AfterTakes DEF e, x, m
  <2>9. x = <<t.c, t.optarg>>
    BY <2>4, <2>5
  <2>10. Ahead(a, s) = Join(<<<<t.c, t.optarg>>>>, Ahead(a, t))
    BY <1>3, <2>7, <2>8, <2>9
  <2> QED BY <2>1, <2>2, <2>5, <2>6, <2>9, <2>10 DEF t
<1> QED BY <1>6, <1>7, <1>8

----------------------------------------------------------------------------
(* What is read from an element, by what it is.                            *)

(* From the end, from "--", and from an operand if none is skipped.        *)
LEMMA LastRead ==
  ASSUME NEW a \in Operands, NEW order, NEW n \in 1..Len(a) + 1
  PROVE  /\ n = Len(a) + 1 =>
              Readings(a, order)[n] = [found |-> <<>>, operands |-> <<>>]
         /\ n <= Len(a) /\ a[n] = <<"-", "-">> =>
              Readings(a, order)[n] = [found |-> <<>>, operands |-> SubSeq(a, n + 1, Len(a))]
         /\ n <= Len(a) /\ ~IsOption(a[n]) /\ order # "PERMUTE" =>
              Readings(a, order)[n] = [found |-> <<>>, operands |-> SubSeq(a, n, Len(a))]
<1> DEFINE R == Readings(a, order)
<1>1. R[n] = ReadFrom(a, order, n, R)
  BY ReadingsStep
<1>2. Len(a) \in Nat /\ n \in Nat
  BY DEF Operands
<1> HIDE DEF R
<1>3. n = Len(a) + 1 => R[n] = [found |-> <<>>, operands |-> <<>>]
  BY <1>1, <1>2 DEF ReadFrom
<1>4. n <= Len(a) /\ a[n] = <<"-", "-">> =>
        R[n] = [found |-> <<>>, operands |-> SubSeq(a, n + 1, Len(a))]
  BY <1>1, <1>2 DEF ReadFrom
<1>5. ASSUME n <= Len(a), ~IsOption(a[n]), order # "PERMUTE"
      PROVE  R[n] = [found |-> <<>>, operands |-> SubSeq(a, n, Len(a))]
  <2>1. ~ (n > Len(a))
    BY <1>2, <1>5
  <2>2. a[n] # <<"-", "-">>
    <3>1. ~IsOption(a[n])
      BY <1>5
    <3>2. IsOption(<<"-", "-">>)
      BY DEF IsOption
    <3> QED BY <3>1, <3>2
  <2> QED BY <1>1, <1>5, <2>1, <2>2 DEF ReadFrom
<1> QED BY <1>3, <1>4, <1>5 DEF R

(* From an element with options.                                           *)
LEMMA OptionRead ==
  ASSUME NEW a \in Operands, NEW order, NEW n \in 1..Len(a),
         IsOption(a[n]), a[n] # <<"-", "-">>
  PROVE  Readings(a, order)[n] = AfterLetters(a, order, n, 2) /\ 2 \in 1..Len(a[n]) + 1
<1> DEFINE R == Readings(a, order)
           l == Letters(a, n, 2)
<1>1. Len(a) \in Nat /\ Len(a[n]) \in Nat /\ n \in 1..Len(a) + 1
  BY DEF Operands, Texts
<1>2. 2 \in 1..Len(a[n]) + 1 /\ ~ (n > Len(a))
  BY <1>1 DEF IsOption
<1>3. R[n] = ReadFrom(a, order, n, R)
  BY <1>1, ReadingsStep
<1>4. l.next \in 1..Len(a) + 1
  <2>1. l.next \in n + 1..Len(a) + 1
    BY <1>2, LettersTyped
  <2> HIDE DEF l
  <2> QED BY <1>1, <2>1
<1>5. R[l.next] \in Read
  <2> HIDE DEF l
  <2> QED BY <1>4, ReadingsTyped
<1> HIDE DEF R
<1>6. R[n] = [R[l.next] EXCEPT !.found = l.found \o @]
  BY <1>2, <1>3 DEF ReadFrom
<1>7. AfterLetters(a, order, n, 2) = Join(l.found, R[l.next])
  BY DEF AfterLetters, R
<1> HIDE DEF l
<1>8. R[n] = Join(l.found, R[l.next])
  BY <1>5, <1>6 DEF Read, Join
<1> QED BY <1>2, <1>7, <1>8 DEF R

(* From an operand that is skipped.                                        *)
LEMMA OperandRead ==
  ASSUME NEW a \in Operands, NEW n \in 1..Len(a), ~IsOption(a[n])
  PROVE  LET R == Readings(a, "PERMUTE")
         IN  R[n].found = R[n + 1].found /\ R[n].operands = <<a[n]>> \o R[n + 1].operands
<1> DEFINE R == Readings(a, "PERMUTE")
<1>1. Len(a) \in Nat /\ n \in 1..Len(a) + 1 /\ n + 1 \in 1..Len(a) + 1 /\ ~ (n > Len(a))
  BY DEF Operands
<1>2. R[n] = ReadFrom(a, "PERMUTE", n, R)
  BY <1>1, ReadingsStep
<1>3. R[n + 1] \in Read
  BY <1>1, ReadingsTyped
<1> HIDE DEF R
<1>4. a[n] # <<"-", "-">>
  BY DEF IsOption
<1>5. R[n] = [R[n + 1] EXCEPT !.operands = <<a[n]>> \o @]
  BY <1>1, <1>2, <1>4 DEF ReadFrom
<1>6. R[n].found = R[n + 1].found /\ R[n].operands = <<a[n]>> \o R[n + 1].operands
  BY <1>3, <1>5 DEF Read
<1> QED BY <1>6 DEF R

(* From several of them.                                                   *)
LEMMA OperandsRead ==
  ASSUME NEW a \in Operands, NEW m \in 1..Len(a) + 1, NEW n \in m..Len(a) + 1,
         \A k \in m..n - 1 : ~IsOption(a[k])
  PROVE  LET R == Readings(a, "PERMUTE")
         IN  /\ R[m].found = R[n].found
             /\ R[m].operands = SubSeq(a, m, n - 1) \o R[n].operands
<1> DEFINE R == Readings(a, "PERMUTE")
           Ends(k) == R[k].found = R[n].found /\ R[k].operands = SubSeq(a, k, n - 1) \o R[n].operands
           S == {d \in Nat : d <= n - m => Ends(n - d)}
<1>1. Len(a) \in Nat /\ m \in Nat /\ n \in Nat /\ m <= n /\ n <= Len(a) + 1 /\ 1 <= m
  BY DEF Operands
<1>2. \A k \in 1..Len(a) + 1 : R[k] \in Read /\ R[k].operands \in Operands
  <2>1. \A k \in 1..Len(a) + 1 : R[k] \in Read
    BY ReadingsTyped
  <2> HIDE DEF R
  <2> QED BY <2>1 DEF Read
<1>3. \A k \in m..n - 1 : R[k].found = R[k + 1].found
      /\ R[k].operands = <<a[k]>> \o R[k + 1].operands
  <2> SUFFICES ASSUME NEW k \in m..n - 1
      PROVE  R[k].found = R[k + 1].found /\ R[k].operands = <<a[k]>> \o R[k + 1].operands
    OBVIOUS
  <2>1. k \in 1..Len(a) /\ ~IsOption(a[k])
    BY <1>1
  <2> QED BY <2>1, OperandRead
<1> HIDE DEF R
<1>4. 0 \in S
  <2>1. SubSeq(a, n, n - 1) = <<>>
    BY <1>1, SubSeqEmpty
  <2>2. R[n].operands \in Operands
    BY <1>1, <1>2
  <2>3. <<>> \o R[n].operands = R[n].operands
    BY <2>2, OperandsConcat
  <2>4. Ends(n)
    BY <2>1, <2>3
  <2> HIDE DEF Ends
  <2> QED BY <1>1, <2>4
<1>5. ASSUME NEW d \in Nat, d \in S
      PROVE  d + 1 \in S
  <2> HIDE DEF Ends
  <2> SUFFICES ASSUME d + 1 <= n - m
               PROVE  Ends(n - (d + 1))
    OBVIOUS
  <2> DEFINE k == n - (d + 1)
  <2>1. k \in m..n - 1 /\ k + 1 = n - d /\ d <= n - m
    BY <1>1
  <2>2. Ends(n - d)
    BY <1>5, <2>1
  <2> HIDE DEF k
  <2>3. Ends(k + 1)
    BY <2>1, <2>2
  <2>4. k \in 1..Len(a) /\ n - 1 \in k..Len(a) /\ k \in Nat \ {0}
        /\ k + 1 \in Nat \ {0} /\ n - 1 \in Nat /\ n - 1 <= Len(a)
    BY <1>1, <2>1
  <2>5. SubSeq(a, k, n - 1) = <<a[k]>> \o SubSeq(a, k + 1, n - 1)
    BY <2>4, SubSeqRecursiveFirst DEF Operands
  <2>6. <<a[k]>> \in Operands /\ SubSeq(a, k + 1, n - 1) \in Operands
        /\ R[n].operands \in Operands
    <3>1. a[k] \in Texts
      BY <2>4 DEF Operands
    <3>2. SubSeq(a, k + 1, n - 1) \in Operands
      BY <2>4, OperandsPart
    <3>3. R[n].operands \in Operands
      BY <1>1, <1>2
    <3> QED BY <3>1, <3>2, <3>3 DEF Operands
  <2> DEFINE x == <<a[k]>>
             y == SubSeq(a, k + 1, n - 1)
             z == R[n].operands
  <2>7. (x \o y) \o z = x \o (y \o z)
    <3> HIDE DEF x, y, z
    <3> QED BY <2>6, OperandsAssociative DEF x, y, z
  <2>8. R[k].found = R[n].found /\ R[k].operands = x \o (y \o z)
    BY <1>3, <2>1, <2>3 DEF Ends
  <2>9. R[k].operands = SubSeq(a, k, n - 1) \o z
    BY <2>5, <2>7, <2>8
  <2>10. Ends(k)
    BY <2>8, <2>9 DEF Ends
  <2> QED BY <2>10 DEF k
<1>6. \A d \in Nat : d \in S
  <2> HIDE DEF S
  <2> QED BY <1>4, <1>5, Induction
<1>7. n - m \in Nat /\ n - (n - m) = m
  BY <1>1
<1>8. Ends(m)
  <2>1. n - m \in S
    BY <1>6, <1>7
  <2> HIDE DEF Ends
  <2> QED BY <1>7, <2>1
<1> QED BY <1>8 DEF R

----------------------------------------------------------------------------
(* The permutation of argv.                                                *)

(* The second of three parts, and the third.                               *)
LEMMA PartsOfConcat ==
  ASSUME NEW f \in Operands, NEW g \in Operands, NEW h \in Operands
  PROVE  /\ (f \o g) \o h \in Operands
         /\ Len((f \o g) \o h) = Len(f) + Len(g) + Len(h)
         /\ SubSeq((f \o g) \o h, Len(f) + 1, Len(f) + Len(g)) = g
         /\ \A k \in 1..Len(h) : ((f \o g) \o h)[Len(f) + Len(g) + k] = h[k]
<1> DEFINE fg == f \o g
           v == fg \o h
           m == Len(f)
           n == Len(g)
           w == SubSeq(v, m + 1, m + n)
<1>1. m \in Nat /\ n \in Nat /\ Len(h) \in Nat
  BY DEF Operands
<1>2. /\ fg \in Operands /\ Len(fg) = m + n
      /\ \A k \in 1..m + n : fg[k] = IF k <= m THEN f[k] ELSE g[k - m]
  BY ConcatProperties DEF Operands
<1> HIDE DEF fg
<1>3. /\ v \in Operands /\ Len(v) = Len(fg) + Len(h)
      /\ \A k \in 1..Len(fg) + Len(h) : v[k] = IF k <= Len(fg) THEN fg[k] ELSE h[k - Len(fg)]
  <2>1. fg \in Seq(Texts) /\ h \in Seq(Texts)
    BY <1>2 DEF Operands
  <2>2. /\ v \in Seq(Texts) /\ Len(v) = Len(fg) + Len(h)
        /\ \A k \in 1..Len(fg) + Len(h) : v[k] = IF k <= Len(fg) THEN fg[k] ELSE h[k - Len(fg)]
    <3> HIDE DEF w, m, n
    <3> QED BY <2>1, ConcatProperties
  <2> QED BY <2>2 DEF Operands
<1> HIDE DEF v
<1>4. Len(v) = m + n + Len(h)
  BY <1>1, <1>2, <1>3
<1> HIDE DEF m, n
<1>5. \A k \in 1..n : v[m + k] = g[k]
  <2> SUFFICES ASSUME NEW k \in 1..n
               PROVE  v[m + k] = g[k]
    OBVIOUS
  <2>1. m + k \in 1..m + n /\ m + k <= Len(fg) /\ ~ (m + k <= m) /\ (m + k) - m = k
        /\ m + k \in 1..Len(fg) + Len(h)
    BY <1>1, <1>2
  <2>2. v[m + k] = fg[m + k]
    BY <1>3, <2>1
  <2>3. fg[m + k] = g[k]
    BY <1>2, <2>1
  <2> QED BY <2>2, <2>3
<1>6. \A k \in 1..Len(h) : v[m + n + k] = h[k]
  <2> SUFFICES ASSUME NEW k \in 1..Len(h)
               PROVE  v[m + n + k] = h[k]
    OBVIOUS
  <2>1. m + n + k \in 1..Len(fg) + Len(h) /\ ~ (m + n + k <= Len(fg))
        /\ (m + n + k) - Len(fg) = k
    BY <1>1, <1>2
  <2> QED BY <1>3, <2>1
<1>7. w \in Operands /\ Len(w) = n /\ \A k \in 1..n : w[k] = v[m + k]
  <2>1. m + 1 \in Nat \ {0} /\ m + n \in Nat /\ m + n <= Len(v)
    BY <1>1, <1>4
  <2>2. /\ w \in Operands
        /\ Len(w) = IF m + 1 <= m + n THEN (m + n) - (m + 1) + 1 ELSE 0
        /\ \A k \in 1..(m + n) - (m + 1) + 1 : w[k] = v[(m + 1) + k - 1]
    BY <1>3, <2>1, OperandsPart
  <2> HIDE DEF w
  <2>3. (m + n) - (m + 1) + 1 = n /\ (m + 1 <= m + n <=> n # 0)
    BY <1>1
  <2>4. \A k \in 1..n : (m + 1) + k - 1 = m + k
    BY <1>1
  <2> QED BY <2>2, <2>3, <2>4
<1> HIDE DEF w
<1>8. w = g
  <2>1. Len(g) = n /\ g \in Operands
    BY DEF n
  <2> QED BY <1>5, <1>7, <2>1, SameSequence DEF Operands
<1> QED BY <1>3, <1>4, <1>6, <1>8 DEF v, fg, w, m, n

(* Two neighbouring parts of a command line.                               *)
LEMMA PartsMeet ==
  ASSUME NEW a \in Operands, NEW m \in Nat, NEW k \in Nat, NEW n \in Nat,
         1 <= m, m <= k, k <= n, n <= Len(a) + 1
  PROVE  SubSeq(a, m, k - 1) \o SubSeq(a, k, n - 1) = SubSeq(a, m, n - 1)
<1>1. Len(a) \in Nat
  BY DEF Operands
<1>2. /\ m \in 1..Len(a) + 1 /\ k - 1 \in m - 1..Len(a) /\ n - 1 \in k - 1..Len(a)
      /\ (k - 1) + 1 = k
  BY <1>1
<1>3. SubSeq(a, m, k - 1) \o SubSeq(a, (k - 1) + 1, n - 1) = SubSeq(a, m, n - 1)
  BY <1>2, ConcatAdjacentSubSeq DEF Operands
<1> QED BY <1>2, <1>3

(* A part in which two command lines are the same.                         *)
LEMMA PartSame ==
  ASSUME NEW a \in Operands, NEW v \in Operands, Len(v) = Len(a),
         NEW m \in Nat \ {0}, NEW n \in Nat, n <= Len(a), \A k \in m..n : v[k] = a[k]
  PROVE  SubSeq(v, m, n) = SubSeq(a, m, n)
<1> DEFINE x == SubSeq(a, m, n)
           y == SubSeq(v, m, n)
<1>1. /\ x \in Operands /\ Len(x) = IF m <= n THEN n - m + 1 ELSE 0
      /\ \A k \in 1..n - m + 1 : x[k] = a[m + k - 1]
  BY OperandsPart
<1>2. /\ y \in Operands /\ Len(y) = IF m <= n THEN n - m + 1 ELSE 0
      /\ \A k \in 1..n - m + 1 : y[k] = v[m + k - 1]
  BY OperandsPart
<1> HIDE DEF x, y
<1>3. \A k \in 1..n - m + 1 : m + k - 1 \in m..n
  OBVIOUS
<1>4. Len(y) = Len(x) /\ 1..Len(y) \subseteq 1..n - m + 1
  BY <1>1, <1>2
<1>5. \A k \in 1..Len(y) : y[k] = x[k]
  BY <1>1, <1>2, <1>3, <1>4
<1>6. y = x
  BY <1>1, <1>2, <1>4, <1>5, SameSequence DEF Operands
<1> QED BY <1>6 DEF x, y

(* A scan that has only moved what it skipped, to before its place.        *)
SameScan(s, t) ==
  t.nextchar = s.nextchar /\ t.ordering = s.ordering /\ t.c = s.c /\ t.optarg = s.optarg
SkippedBefore(a, s, t) ==
  /\ t \in Scans /\ SameScan(s, t) /\ t.optind = s.optind
  /\ Len(t.argv) = Len(a) /\ \A k \in s.optind..Len(a) : t.argv[k] = a[k]
  /\ 1 <= t.first_nonopt /\ t.first_nonopt <= t.optind
  /\ SubSeq(t.argv, t.first_nonopt, t.optind - 1) = Skipped(s)

(* exchange moves it there.                                                *)
LEMMA Exchanged ==
  ASSUME NEW a \in Operands, NEW s, Positioned(a, s),
         s.first_nonopt # s.last_nonopt, s.last_nonopt # s.optind
  PROVE  SkippedBefore(a, s, exchange(s))
<1> DEFINE v == s.argv
           f == s.first_nonopt
           l == s.last_nonopt
           p == s.optind
           before == SubSeq(v, 1, f - 1)
           operands == SubSeq(v, f, l - 1)
           opts == SubSeq(v, l, p - 1)
           after == SubSeq(v, p, Len(v))
           first == before \o opts
           argv == (first \o operands) \o after
           t == exchange(s)
<1>1. /\ s \in Scans /\ v \in Operands /\ Len(v) = Len(a) /\ Len(a) \in Nat
      /\ f \in Nat /\ l \in Nat /\ p \in Nat /\ 1 <= f /\ f < l /\ l < p /\ p <= Len(a) + 1
      /\ \A k \in p..Len(a) : v[k] = a[k]
  <2>1. s \in Scans /\ Len(v) = Len(a) /\ \A k \in p..Len(a) : v[k] = a[k]
    BY DEF Positioned
  <2>2. f \in Nat /\ l \in Nat /\ p \in Nat /\ v \in Operands
    BY <2>1 DEF Scans
  <2>3. Len(a) \in Nat
    BY DEF Operands
  <2>4. 1 <= f /\ f <= l /\ l <= p /\ p <= Len(a) + 1 /\ f # l /\ l # p
    BY DEF Positioned
  <2> HIDE DEF v, f, l, p
  <2> QED BY <2>1, <2>2, <2>3, <2>4
<1>2. t = [s EXCEPT !.argv = argv, !.first_nonopt = f + Len(opts), !.last_nonopt = p]
  <2>1. t = [s EXCEPT !.argv = SubSeq(@, 1, f - 1) \o opts \o operands \o SubSeq(@, p, Len(@)),
                      !.first_nonopt = @ + Len(opts), !.last_nonopt = p]
    BY Zenon DEF exchange
  <2> HIDE DEF opts, operands
  <2> QED BY <1>1, <2>1 DEF Scans
<1> HIDE DEF v, f, l, p
<1>3. before \in Operands /\ Len(before) = f - 1
  <2>1. 1 \in Nat \ {0} /\ f - 1 \in Nat /\ f - 1 <= Len(v) /\ (f - 1) - 1 + 1 = f - 1
        /\ (~ (1 <= f - 1) => f - 1 = 0)
    BY <1>1
  <2>2. before \in Operands /\ Len(before) = IF 1 <= f - 1 THEN (f - 1) - 1 + 1 ELSE 0
    BY <1>1, <2>1, OperandsPart
  <2> HIDE DEF before
  <2> QED BY <2>1, <2>2
<1>4. operands \in Operands /\ Len(operands) = l - f
  <2>1. f \in Nat \ {0} /\ l - 1 \in Nat /\ l - 1 <= Len(v)
        /\ (l - 1) - f + 1 = l - f /\ f <= l - 1
    BY <1>1
  <2>2. operands \in Operands /\ Len(operands) = IF f <= l - 1 THEN (l - 1) - f + 1 ELSE 0
    BY <1>1, <2>1, OperandsPart
  <2> HIDE DEF operands
  <2> QED BY <2>1, <2>2
<1>5. opts \in Operands /\ Len(opts) = p - l
  <2>1. l \in Nat \ {0} /\ p - 1 \in Nat /\ p - 1 <= Len(v)
        /\ (p - 1) - l + 1 = p - l /\ l <= p - 1
    BY <1>1
  <2>2. opts \in Operands /\ Len(opts) = IF l <= p - 1 THEN (p - 1) - l + 1 ELSE 0
    BY <1>1, <2>1, OperandsPart
  <2> HIDE DEF opts
  <2> QED BY <2>1, <2>2
<1>6. /\ after \in Operands /\ Len(after) = Len(a) - p + 1
      /\ \A k \in 1..Len(a) - p + 1 : after[k] = v[p + k - 1]
  <2>1. p \in Nat \ {0} /\ Len(v) \in Nat /\ Len(v) <= Len(v) /\ Len(v) = Len(a)
        /\ (~ (p <= Len(a)) => Len(a) - p + 1 = 0)
    BY <1>1
  <2>2. /\ after \in Operands /\ Len(after) = IF p <= Len(v) THEN Len(v) - p + 1 ELSE 0
        /\ \A k \in 1..Len(v) - p + 1 : after[k] = v[p + k - 1]
    BY <1>1, <2>1, OperandsPart
  <2> HIDE DEF after
  <2> QED BY <2>1, <2>2
<1> HIDE DEF before, operands, opts, after
<1>7. first \in Operands /\ Len(first) = (f - 1) + (p - l)
  <2>1. first \in Operands /\ Len(first) = Len(before) + Len(opts)
    BY <1>3, <1>5, ConcatProperties DEF Operands
  <2> HIDE DEF first
  <2> QED BY <1>3, <1>5, <2>1
<1> HIDE DEF first
<1>8. /\ argv \in Operands
      /\ Len(argv) = Len(first) + Len(operands) + Len(after)
      /\ SubSeq(argv, Len(first) + 1, Len(first) + Len(operands)) = operands
      /\ \A k \in 1..Len(after) : argv[Len(first) + Len(operands) + k] = after[k]
  BY <1>4, <1>6, <1>7, PartsOfConcat
<1> HIDE DEF argv
<1>9. /\ Len(first) + Len(operands) = p - 1 /\ Len(first) + 1 = f + Len(opts)
      /\ Len(first) + Len(operands) + Len(after) = Len(a)
  <2>1. ((f - 1) + (p - l)) + (l - f) = p - 1 /\ ((f - 1) + (p - l)) + 1 = f + (p - l)
        /\ (((f - 1) + (p - l)) + (l - f)) + (Len(a) - p + 1) = Len(a)
    BY <1>1
  <2> QED BY <1>4, <1>5, <1>6, <1>7, <2>1
<1>10. Len(argv) = Len(a) /\ SubSeq(argv, f + Len(opts), p - 1) = operands
  BY <1>8, <1>9
<1>11. \A k \in p..Len(a) : argv[k] = a[k]
  <2> SUFFICES ASSUME NEW k \in p..Len(a)
               PROVE  argv[k] = a[k]
    OBVIOUS
  <2>1. /\ k - p + 1 \in 1..Len(a) - p + 1 /\ (p - 1) + (k - p + 1) = k
        /\ p + (k - p + 1) - 1 = k
    BY <1>1
  <2>2. argv[(p - 1) + (k - p + 1)] = after[k - p + 1]
    BY <1>6, <1>8, <1>9, <2>1
  <2>3. after[k - p + 1] = v[k]
    BY <1>6, <2>1
  <2> QED BY <1>1, <2>1, <2>2, <2>3
<1>12. f + Len(opts) \in Nat /\ 1 <= f + Len(opts) /\ f + Len(opts) <= p
  BY <1>1, <1>5
<1>13. /\ t \in Scans /\ SameScan(s, t) /\ t.optind = p
       /\ t.argv = argv /\ t.first_nonopt = f + Len(opts)
  BY <1>1, <1>2, <1>8, <1>12 DEF Scans, SameScan, p
<1> HIDE DEF t
<1>14. Skipped(s) = operands
  BY DEF Skipped, operands, v, f, l
<1>15. SkippedBefore(a, s, t)
  BY <1>10, <1>11, <1>12, <1>13, <1>14 DEF SkippedBefore, p
<1> QED BY <1>15 DEF t

(* So does MoveSkipped.                                                    *)
LEMMA SkippedMoves ==
  ASSUME NEW a \in Operands, NEW s, Positioned(a, s)
  PROVE  SkippedBefore(a, s, MoveSkipped(s))
<1>1. /\ s \in Scans /\ Len(s.argv) = Len(a) /\ \A k \in s.optind..Len(a) : s.argv[k] = a[k]
      /\ 1 <= s.first_nonopt /\ s.first_nonopt <= s.last_nonopt /\ s.last_nonopt <= s.optind
  BY DEF Positioned
<1>2. s.first_nonopt \in Nat /\ s.last_nonopt \in Nat /\ s.optind \in Nat
      /\ s.argv \in Operands
  BY <1>1 DEF Scans
<1>3. SameScan(s, s)
  BY DEF SameScan
<1>4. CASE s.last_nonopt = s.optind
  <2>1. MoveSkipped(s) = s
    BY <1>4 DEF MoveSkipped
  <2>2. s.first_nonopt <= s.optind
        /\ Skipped(s) = SubSeq(s.argv, s.first_nonopt, s.optind - 1)
    BY <1>1, <1>4 DEF Skipped
  <2> QED BY <1>1, <1>3, <2>1, <2>2 DEF SkippedBefore
<1>5. CASE s.last_nonopt # s.optind /\ s.first_nonopt # s.last_nonopt
  BY <1>5, Exchanged DEF MoveSkipped
<1>6. CASE s.last_nonopt # s.optind /\ s.first_nonopt = s.last_nonopt
  <2> DEFINE t == [s EXCEPT !.first_nonopt = s.optind]
  <2>1. MoveSkipped(s) = t
    BY <1>6 DEF MoveSkipped
  <2>2. /\ t \in Scans /\ t.argv = s.argv /\ t.first_nonopt = s.optind /\ t.optind = s.optind
        /\ SameScan(s, t)
    BY <1>1, <1>2 DEF Scans, SameScan
  <2> HIDE DEF t
  <2>3. SubSeq(t.argv, t.first_nonopt, t.optind - 1) = <<>>
    BY <1>2, <2>2, SubSeqEmpty
  <2>4. Skipped(s) = <<>>
    BY <1>2, <1>6, SubSeqEmpty DEF Skipped
  <2>5. 1 <= s.optind
    BY <1>1, <1>2
  <2> QED BY <1>1, <1>2, <2>1, <2>2, <2>3, <2>4, <2>5 DEF SkippedBefore
<1> QED BY <1>4, <1>5, <1>6

(* The scan behind the operands at its place.                              *)
LEMMA OperandsSkipped ==
  ASSUME NEW a \in Operands, NEW s, Positioned(a, s), s.ordering = "PERMUTE"
  PROVE  LET t == SkipOperands(MoveSkipped(s))
         IN  /\ Positioned(a, t) /\ SameScan(s, t)
             /\ s.optind <= t.optind /\ t.last_nonopt = t.optind
             /\ \A k \in s.optind..t.optind - 1 : ~IsOption(a[k])
             /\ t.optind = Len(a) + 1 \/ IsOption(a[t.optind])
             /\ Skipped(t) = Skipped(s) \o SubSeq(a, s.optind, t.optind - 1)
<1> DEFINE u == MoveSkipped(s)
           p == s.optind
           f == u.first_nonopt
           S == {argc(u)} \cup {k \in u.optind..Len(u.argv) : IsOption(u.argv[k])}
           n == Min(S)
           t == SkipOperands(u)
<1>1. SkippedBefore(a, s, u)
  BY SkippedMoves
<1>2. t = [u EXCEPT !.optind = n, !.last_nonopt = n]
  BY Zenon DEF SkipOperands
<1> HIDE DEF u, t
<1>3. /\ u \in Scans /\ SameScan(s, u) /\ u.optind = p
      /\ Len(u.argv) = Len(a) /\ \A k \in p..Len(a) : u.argv[k] = a[k]
      /\ 1 <= f /\ f <= p /\ SubSeq(u.argv, f, p - 1) = Skipped(s)
  BY <1>1 DEF SkippedBefore
<1>4. u.argv \in Operands /\ f \in Nat /\ p \in Nat /\ Len(a) \in Nat /\ 1 <= p
      /\ p <= Len(a) + 1
  <2>1. u.argv \in Operands /\ f \in Nat /\ u.optind \in Nat
    BY <1>3 DEF Scans
  <2>2. Len(a) \in Nat
    BY DEF Operands
  <2>3. p <= Len(a) + 1
    BY DEF Positioned
  <2> HIDE DEF f, p
  <2> QED BY <1>3, <2>1, <2>2, <2>3
<1>5. S = {Len(a) + 1} \cup {k \in p..Len(a) : IsOption(a[k])}
  BY <1>3 DEF argc
<1> HIDE DEF S, p
<1>6. n \in S /\ \A k \in S : n <= k
  <2>1. S \subseteq Nat /\ S # {}
    BY <1>4, <1>5
  <2> QED BY <2>1, MinIsLeast
<1> HIDE DEF n
<1>7. /\ n \in Nat /\ p <= n /\ n <= Len(a) + 1
      /\ n = Len(a) + 1 \/ IsOption(a[n])
  BY <1>4, <1>5, <1>6
<1>8. \A k \in p..n - 1 : ~IsOption(a[k])
  <2> SUFFICES ASSUME NEW k \in p..n - 1, IsOption(a[k])
               PROVE  FALSE
    OBVIOUS
  <2>1. k \in p..Len(a) /\ ~ (n <= k)
    BY <1>4, <1>7
  <2>2. k \in S
    BY <1>5, <2>1
  <2> QED BY <1>6, <2>1, <2>2
<1>9. /\ t \in Scans /\ SameScan(u, t) /\ t.argv = u.argv /\ t.first_nonopt = f
      /\ t.optind = n /\ t.last_nonopt = n
  BY <1>2, <1>3, <1>7 DEF Scans, SameScan
<1> HIDE DEF f
<1>10. SameScan(s, t)
  BY <1>3, <1>9 DEF SameScan
<1>11. Positioned(a, t)
  <2>1. t.ordering = "PERMUTE"
    BY <1>10 DEF SameScan
  <2>2. f <= n /\ n <= n /\ \A k \in n..Len(a) : k \in p..Len(a)
    BY <1>3, <1>4, <1>7
  <2> QED BY <1>3, <1>7, <1>9, <2>1, <2>2 DEF Positioned
<1>12. Skipped(t) = Skipped(s) \o SubSeq(a, p, n - 1)
  <2>1. Skipped(t) = SubSeq(u.argv, f, n - 1)
    BY <1>9 DEF Skipped
  <2>2. SubSeq(u.argv, f, p - 1) \o SubSeq(u.argv, p, n - 1) = SubSeq(u.argv, f, n - 1)
    BY <1>3, <1>4, <1>7, PartsMeet
  <2>3. SubSeq(u.argv, p, n - 1) = SubSeq(a, p, n - 1)
    <3>1. p \in Nat \ {0} /\ n - 1 \in Nat /\ n - 1 <= Len(a)
          /\ \A k \in p..n - 1 : k \in p..Len(a)
      BY <1>4, <1>7
    <3>2. \A k \in p..n - 1 : u.argv[k] = a[k]
      BY <1>3, <3>1
    <3> QED BY <1>3, <1>4, <3>1, <3>2, PartSame
  <2> QED BY <1>3, <2>1, <2>2, <2>3
<1> QED BY <1>7, <1>8, <1>9, <1>10, <1>11, <1>12 DEF t, u, p

(* The scan behind "--", and behind all that follows it.                   *)
LEMMA DashesSkipped ==
  ASSUME NEW a \in Operands, NEW s, Positioned(a, s)
  PROVE  LET t == SkipDashes(s)
         IN  /\ s.optind = Len(a) + 1 \/ a[s.optind] # <<"-", "-">> => t = s
             /\ s.optind # Len(a) + 1 /\ a[s.optind] = <<"-", "-">> =>
                  /\ t \in Scans /\ SameScan(s, t) /\ Len(t.argv) = Len(a)
                  /\ t.last_nonopt = Len(a) + 1 /\ t.optind = Len(a) + 1
                  /\ 1 <= t.first_nonopt /\ t.first_nonopt <= Len(a) + 1
                  /\ Skipped(t) = Skipped(s) \o SubSeq(a, s.optind + 1, Len(a))
<1> DEFINE p == s.optind
           t == [s EXCEPT !.optind = p + 1]
           u == MoveSkipped(t)
           f == u.first_nonopt
           v == SkipDashes(s)
           L == Len(a)
<1>1. /\ s \in Scans /\ Len(s.argv) = L /\ L \in Nat /\ p \in Nat /\ 1 <= p /\ p <= L + 1
      /\ \A k \in p..L : s.argv[k] = a[k]
      /\ s.first_nonopt \in Nat /\ s.last_nonopt \in Nat
      /\ 1 <= s.first_nonopt /\ s.first_nonopt <= s.last_nonopt /\ s.last_nonopt <= p
      /\ s.ordering = "REQUIRE_ORDER" => s.first_nonopt = s.last_nonopt
  <2>1. /\ s \in Scans /\ Len(s.argv) = L
        /\ \A k \in p..L : s.argv[k] = a[k]
        /\ 1 <= s.first_nonopt /\ s.first_nonopt <= s.last_nonopt /\ s.last_nonopt <= p
        /\ p <= L + 1
        /\ s.ordering = "REQUIRE_ORDER" => s.first_nonopt = s.last_nonopt
    BY DEF Positioned
  <2>2. s.first_nonopt \in Nat /\ s.last_nonopt \in Nat /\ p \in Nat
    BY <2>1 DEF Scans
  <2>3. L \in Nat
    BY DEF Operands
  <2> HIDE DEF p, L
  <2> QED BY <2>1, <2>2, <2>3
<1>2. argc(s) = L + 1
  BY <1>1 DEF argc
<1> HIDE DEF p, L
<1>3. ASSUME p = L + 1 \/ a[p] # <<"-", "-">>
      PROVE  v = s
  <2>1. p # L + 1 => s.argv[p] = a[p]
    BY <1>1
  <2> QED BY <1>2, <1>3, <2>1 DEF SkipDashes, p
<1>4. ASSUME p # L + 1, a[p] = <<"-", "-">>
      PROVE  /\ v \in Scans /\ SameScan(s, v) /\ Len(v.argv) = L
             /\ v.last_nonopt = L + 1 /\ v.optind = L + 1
             /\ 1 <= v.first_nonopt /\ v.first_nonopt <= L + 1
             /\ Skipped(v) = Skipped(s) \o SubSeq(a, p + 1, L)
  <2>1. s.argv[p] = <<"-", "-">>
    BY <1>1, <1>4
  <2>2. /\ t \in Scans /\ SameScan(s, t) /\ t.argv = s.argv /\ t.optind = p + 1
        /\ t.first_nonopt = s.first_nonopt /\ t.last_nonopt = s.last_nonopt
    BY <1>1 DEF Scans, SameScan
  <2>3. v = [u EXCEPT !.last_nonopt = L + 1, !.optind = L + 1]
    <3>1. v = [IF t.first_nonopt = t.last_nonopt
               THEN [t EXCEPT !.first_nonopt = t.optind] ELSE MoveSkipped(t)
               EXCEPT !.last_nonopt = argc(s), !.optind = argc(s)]
      BY <1>2, <1>4, <2>1 DEF SkipDashes, p
    <3>2. t.last_nonopt # t.optind
      BY <1>1, <2>2
    <3>3. u = IF t.first_nonopt = t.last_nonopt
              THEN [t EXCEPT !.first_nonopt = t.optind] ELSE MoveSkipped(t)
      <4> HIDE DEF t
      <4> QED BY <3>2 DEF MoveSkipped
    <3> HIDE DEF t, u, v
    <3> QED BY <1>2, <3>1, <3>3
  <2> HIDE DEF t
  <2>4. Positioned(a, t)
    <3>1. p + 1 <= L + 1 /\ s.last_nonopt <= p + 1 /\ \A k \in p + 1..L : k \in p..L
      BY <1>1, <1>4
    <3>2. t.ordering = s.ordering
      BY <2>2 DEF SameScan
    <3> QED BY <1>1, <2>2, <3>1, <3>2 DEF Positioned, L
  <2>5. SkippedBefore(a, t, u)
    BY <2>4, SkippedMoves
  <2> HIDE DEF u, v
  <2>6. /\ u \in Scans /\ SameScan(t, u) /\ u.optind = p + 1
        /\ Len(u.argv) = L /\ \A k \in p + 1..L : u.argv[k] = a[k]
        /\ 1 <= f /\ f <= p + 1 /\ SubSeq(u.argv, f, (p + 1) - 1) = Skipped(t)
    BY <2>2, <2>5 DEF SkippedBefore, L
  <2>7. u.argv \in Operands /\ f \in Nat
    BY <2>6 DEF Scans
  <2>8. /\ v \in Scans /\ SameScan(u, v) /\ v.argv = u.argv /\ v.first_nonopt = f
        /\ v.last_nonopt = L + 1 /\ v.optind = L + 1
    <3>1. L + 1 \in Nat /\ u \in Scans
      BY <1>1, <2>6
    <3> DEFINE n == L + 1
    <3> HIDE DEF n
    <3>2. n \in Nat /\ v = [u EXCEPT !.last_nonopt = n, !.optind = n]
      BY <2>3, <3>1 DEF n
    <3>3. /\ v \in Scans /\ SameScan(u, v) /\ v.argv = u.argv /\ v.first_nonopt = f
          /\ v.last_nonopt = n /\ v.optind = n
      BY <3>1, <3>2 DEF Scans, SameScan
    <3> QED BY <3>3 DEF n
  <2> HIDE DEF f
  <2>9. SameScan(s, v)
    BY <2>2, <2>6, <2>8 DEF SameScan
  <2>10. f <= L + 1 /\ p + 1 \in Nat \ {0} /\ p + 1 <= L + 1 /\ L + 1 \in Nat
         /\ (L + 1) - 1 = L
    BY <1>1, <1>4, <2>6, <2>7
  <2>11. Skipped(t) = Skipped(s)
    BY <2>2 DEF Skipped
  <2>12. Skipped(v) = Skipped(s) \o SubSeq(a, p + 1, L)
    <3>1. Skipped(v) = SubSeq(u.argv, f, (L + 1) - 1)
      BY <2>8 DEF Skipped
    <3>2. SubSeq(u.argv, f, (p + 1) - 1) \o SubSeq(u.argv, p + 1, (L + 1) - 1)
            = SubSeq(u.argv, f, (L + 1) - 1)
      <4>1. /\ f \in Nat /\ p + 1 \in Nat /\ L + 1 \in Nat /\ u.argv \in Operands
            /\ 1 <= f /\ f <= p + 1 /\ p + 1 <= L + 1 /\ L + 1 <= Len(u.argv) + 1
        BY <1>1, <2>6, <2>7, <2>10
      <4> QED BY <4>1, PartsMeet
    <3>3. SubSeq(u.argv, p + 1, L) = SubSeq(a, p + 1, L)
      <4>1. L \in Nat /\ L <= L /\ L = Len(a)
        BY <1>1 DEF L
      <4> QED BY <2>6, <2>7, <2>10, <4>1, PartSame
    <3> QED BY <2>6, <2>10, <2>11, <3>1, <3>2, <3>3
  <2> QED BY <2>6, <2>8, <2>9, <2>10, <2>12
<1> QED BY <1>3, <1>4 DEF p, L

(* All the operands of a command line, but those already behind the scan.  *)
AllOperands(a, s) == Skipped(s) \o Ahead(a, s).operands

(* What is skipped can be read.                                            *)
LEMMA SkippedTyped ==
  ASSUME NEW a \in Operands, NEW s, Positioned(a, s)
  PROVE  /\ Skipped(s) \in Operands
         /\ s.first_nonopt = s.last_nonopt => Skipped(s) = <<>>
<1>1. /\ s \in Scans /\ Len(s.argv) = Len(a) /\ 1 <= s.first_nonopt
      /\ s.first_nonopt <= s.last_nonopt /\ s.last_nonopt <= s.optind /\ s.optind <= Len(a) + 1
  BY DEF Positioned
<1>2. s.argv \in Operands /\ s.first_nonopt \in Nat /\ s.last_nonopt \in Nat
      /\ s.optind \in Nat
  BY <1>1 DEF Scans
<1>3. Len(a) \in Nat
  BY DEF Operands
<1>4. s.first_nonopt \in Nat \ {0} /\ s.last_nonopt - 1 \in Nat
      /\ s.last_nonopt - 1 <= Len(s.argv)
  BY <1>1, <1>2, <1>3
<1>5. Skipped(s) \in Operands
  BY <1>2, <1>4, OperandsPart DEF Skipped
<1>6. ASSUME s.first_nonopt = s.last_nonopt
      PROVE  Skipped(s) = <<>>
  <2>1. s.last_nonopt - 1 < s.first_nonopt /\ s.last_nonopt - 1 \in Int
        /\ s.first_nonopt \in Int
    BY <1>2, <1>6
  <2> QED BY <2>1, SubSeqEmpty DEF Skipped
<1> QED BY <1>5, <1>6

(* The scan that first skips operands, if it skips any.                    *)
Behind(s) == IF s.ordering = "PERMUTE" THEN SkipOperands(MoveSkipped(s)) ELSE s

(* It leaves the same options and operands to be found.                    *)
LEMMA BehindOperands ==
  ASSUME NEW a \in Operands, NEW s, Positioned(a, s), s.nextchar = <<>>
  PROVE  LET t == Behind(s)
         IN  /\ Positioned(a, t) /\ SameScan(s, t)
             /\ t.ordering = "PERMUTE" =>
                  /\ t.last_nonopt = t.optind
                  /\ t.optind = Len(a) + 1 \/ IsOption(a[t.optind])
             /\ Ahead(a, t).found = Ahead(a, s).found
             /\ AllOperands(a, t) = AllOperands(a, s)
<1> DEFINE t == Behind(s)
<1>1. s.ordering \in {"PERMUTE", "REQUIRE_ORDER"} /\ s.optind \in Nat /\ Len(a) \in Nat
      /\ s.optind \in 1..Len(a) + 1
  BY DEF Positioned, Scans, Operands
<1>2. CASE s.ordering # "PERMUTE"
  <2>1. t = s
    BY <1>2 DEF Behind
  <2>2. SameScan(s, s)
    BY DEF SameScan
  <2> HIDE DEF t
  <2>3. t.ordering # "PERMUTE"
    BY <1>2, <2>1
  <2> QED BY <2>1, <2>2, <2>3 DEF t
<1>3. CASE s.ordering = "PERMUTE"
  <2> DEFINE m == s.optind
             n == t.optind
             R == Readings(a, "PERMUTE")
             x == SubSeq(a, m, n - 1)
  <2>1. t = SkipOperands(MoveSkipped(s))
    BY <1>3 DEF Behind
  <2>2. /\ Positioned(a, t) /\ SameScan(s, t)
        /\ m <= n /\ t.last_nonopt = n
        /\ \A k \in m..n - 1 : ~IsOption(a[k])
        /\ n = Len(a) + 1 \/ IsOption(a[n])
        /\ Skipped(t) = Skipped(s) \o x
    BY <1>3, <2>1, OperandsSkipped
  <2> HIDE DEF t
  <2>3. n \in Nat /\ n <= Len(a) + 1
    BY <2>2 DEF Positioned, Scans
  <2>4. t.nextchar = <<>> /\ t.ordering = "PERMUTE"
    BY <1>3, <2>2 DEF SameScan
  <2>5. Ahead(a, s) = R[m] /\ Ahead(a, t) = R[n]
    BY <1>3, <2>4 DEF Ahead
  <2> HIDE DEF m, n, R
  <2>6. m \in 1..Len(a) + 1 /\ n \in m..Len(a) + 1
    BY <1>1, <2>2, <2>3 DEF m
  <2>7. R[m].found = R[n].found /\ R[m].operands = x \o R[n].operands
    BY <2>2, <2>6, OperandsRead DEF R
  <2>8. x \in Operands /\ R[n].operands \in Operands /\ Skipped(s) \in Operands
    <3>1. m \in Nat \ {0} /\ n - 1 \in Nat /\ n - 1 <= Len(a) /\ n \in 1..Len(a) + 1
      BY <1>1, <2>6
    <3>2. x \in Operands
      BY <3>1, OperandsPart
    <3>3. R[n] \in Read
      BY <3>1, ReadingsTyped DEF R
    <3>4. R[n].operands \in Operands
      BY <3>3 DEF Read
    <3> QED BY <3>2, <3>4, SkippedTyped
  <2> DEFINE y == Skipped(s)
             z == R[n].operands
  <2>9. (y \o x) \o z = y \o (x \o z)
    <3> HIDE DEF x, y, z
    <3> QED BY <2>8, OperandsAssociative DEF x, y, z
  <2>10. AllOperands(a, t) = AllOperands(a, s)
    BY <2>2, <2>5, <2>7, <2>9 DEF AllOperands
  <2> QED BY <2>2, <2>5, <2>7, <2>10 DEF n, t
<1> QED BY <1>2, <1>3

(* The end of the options: what is left are the operands.                  *)
Ended(a, s, t) ==
  /\ t.nextchar = <<>> /\ t.c = "EOF" /\ t.ordering = s.ordering
  /\ Ahead(a, s).found = <<>>
  /\ SubSeq(t.argv, t.optind, Len(t.argv)) = AllOperands(a, s)

(* Another element with options, and the same options and operands.        *)
Reached(a, s, t) ==
  /\ t.nextchar # <<>> /\ Positioned(a, t) /\ Within(a, t)
  /\ t.ordering = s.ordering /\ t.optarg = s.optarg
  /\ Ahead(a, t).found = Ahead(a, s).found
  /\ AllOperands(a, t) = AllOperands(a, s)

(* The end, from a scan b that has no operand to skip.                     *)
LEMMA EndReached ==
  ASSUME NEW a \in Operands, NEW b, Positioned(a, b), b.nextchar = <<>>,
         b.ordering = "PERMUTE" => b.last_nonopt = b.optind,
         b.optind = Len(a) + 1 \/ a[b.optind] = <<"-", "-">>
  PROVE  LET t == SkipDashes(b)
         IN  /\ t.optind = argc(t)
             /\ Ended(a, b, [t EXCEPT !.c = "EOF",
                               !.optind = IF t.first_nonopt # t.last_nonopt
                                          THEN t.first_nonopt ELSE @])
<1> DEFINE t == SkipDashes(b)
           q == IF t.first_nonopt # t.last_nonopt THEN t.first_nonopt ELSE t.optind
           e == [t EXCEPT !.c = "EOF", !.optind = q]
           L == Len(a)
           R == Readings(a, b.ordering)
<1>1. /\ b \in Scans /\ Len(b.argv) = L /\ L \in Nat /\ b.optind \in 1..L + 1
      /\ b.ordering \in {"PERMUTE", "REQUIRE_ORDER"}
      /\ b.ordering = "REQUIRE_ORDER" => b.first_nonopt = b.last_nonopt
  BY DEF Positioned, Scans, Operands
<1>2. Skipped(b) \in Operands /\ (b.first_nonopt = b.last_nonopt => Skipped(b) = <<>>)
  BY SkippedTyped
<1>3. Ahead(a, b) = R[b.optind]
  BY DEF Ahead
<1>4. SameScan(b, b)
  BY DEF SameScan
<1> HIDE DEF L, R
<1>5. CASE b.optind = L + 1
  <2>1. t = b
    BY <1>5, DashesSkipped DEF L
  <2>2. R[b.optind] = [found |-> <<>>, operands |-> <<>>]
    BY <1>1, <1>5, LastRead DEF L, R
  <2>3. AllOperands(a, b) = Skipped(b) /\ Ahead(a, b).found = <<>>
    <3>1. Skipped(b) \o <<>> = Skipped(b)
      BY <1>2, OperandsConcat
    <3> QED BY <1>3, <2>2, <3>1 DEF AllOperands
  <2> HIDE DEF t
  <2>4. SubSeq(b.argv, q, L) = Skipped(b)
    <3>1. CASE b.first_nonopt # b.last_nonopt
      <4>1. b.last_nonopt = L + 1 /\ q = b.first_nonopt /\ b.last_nonopt - 1 = L
        BY <1>1, <1>5, <2>1, <3>1
      <4> QED BY <4>1 DEF Skipped
    <3>2. CASE b.first_nonopt = b.last_nonopt
      <4>1. q = L + 1 /\ L < L + 1 /\ L \in Int /\ L + 1 \in Int
        BY <1>1, <1>5, <2>1, <3>2
      <4> HIDE DEF q
      <4>2. SubSeq(b.argv, q, L) = <<>>
        BY <4>1, SubSeqEmpty
      <4> QED BY <1>2, <3>2, <4>2
    <3> QED BY <3>1, <3>2
  <2> HIDE DEF q
  <2>5. e.nextchar = <<>> /\ e.c = "EOF" /\ e.ordering = b.ordering
        /\ e.argv = b.argv /\ e.optind = q
    BY <1>1, <2>1 DEF Scans
  <2>6. Ended(a, b, e)
    <3> HIDE DEF e
    <3> QED BY <1>1, <2>3, <2>4, <2>5 DEF Ended
  <2>7. t.optind = argc(t)
    BY <1>1, <1>5, <2>1 DEF argc
  <2> QED BY <2>6, <2>7 DEF t, q
<1>6. CASE b.optind # L + 1 /\ a[b.optind] = <<"-", "-">>
  <2>1. /\ t \in Scans /\ SameScan(b, t) /\ Len(t.argv) = L
        /\ t.last_nonopt = L + 1 /\ t.optind = L + 1
        /\ Skipped(t) = Skipped(b) \o SubSeq(a, b.optind + 1, L)
    BY <1>6, DashesSkipped DEF L
  <2>2. R[b.optind] = [found |-> <<>>, operands |-> SubSeq(a, b.optind + 1, L)]
    <3>1. b.optind <= L
      BY <1>1, <1>6
    <3> QED BY <1>1, <1>6, <3>1, LastRead DEF L, R
  <2>3. AllOperands(a, b) = Skipped(t) /\ Ahead(a, b).found = <<>>
    <3> DEFINE x == SubSeq(a, b.optind + 1, L)
    <3>1. Ahead(a, b).found = <<>> /\ Ahead(a, b).operands = x
      <4>1. R[b.optind] = [found |-> <<>>, operands |-> x]
        BY <2>2
      <4> HIDE DEF x
      <4> QED BY <1>3, <4>1
    <3> HIDE DEF t
    <3> QED BY <2>1, <3>1 DEF AllOperands
  <2> HIDE DEF t
  <2>4. SubSeq(t.argv, q, L) = Skipped(t)
    <3>1. q = t.first_nonopt /\ t.last_nonopt - 1 = L
      BY <1>1, <2>1
    <3> QED BY <3>1 DEF Skipped
  <2> HIDE DEF q
  <2>5. e.nextchar = <<>> /\ e.c = "EOF" /\ e.ordering = b.ordering
        /\ e.argv = t.argv /\ e.optind = q
    BY <2>1 DEF Scans, SameScan
  <2>6. Ended(a, b, e)
    <3> HIDE DEF e
    <3> QED BY <2>1, <2>3, <2>4, <2>5 DEF Ended
  <2>7. t.optind = argc(t)
    BY <2>1 DEF argc
  <2> QED BY <2>6, <2>7 DEF t, q
<1> QED BY <1>5, <1>6 DEF L

(* An operand, when none is skipped.                                       *)
LEMMA OperandReached ==
  ASSUME NEW a \in Operands, NEW b, Positioned(a, b), b.nextchar = <<>>,
         b.ordering # "PERMUTE", b.optind <= Len(a), ~IsOption(a[b.optind])
  PROVE  Ended(a, b, [b EXCEPT !.c = "EOF"])
<1> DEFINE L == Len(a)
           R == Readings(a, b.ordering)
           p == b.optind
           e == [b EXCEPT !.c = "EOF"]
<1>1. /\ b \in Scans /\ b.argv \in Operands /\ Len(b.argv) = L /\ L \in Nat
      /\ p \in 1..L + 1 /\ p \in Nat \ {0}
      /\ \A k \in p..L : b.argv[k] = a[k]
      /\ b.first_nonopt = b.last_nonopt
  BY DEF Positioned, Scans, Operands
<1>2. Skipped(b) = <<>>
  BY <1>1, SkippedTyped
<1>3. Ahead(a, b) = R[p]
  BY DEF Ahead
<1>4. R[p] = [found |-> <<>>, operands |-> SubSeq(a, p, L)]
  BY <1>1, LastRead
<1> HIDE DEF L, R, p
<1>5. SubSeq(b.argv, p, L) = SubSeq(a, p, L)
  BY <1>1, PartSame DEF L
<1>6. SubSeq(a, p, L) \in Operands
  BY <1>1, OperandsPart DEF L
<1>7. <<>> \o SubSeq(a, p, L) = SubSeq(a, p, L)
  BY <1>6, OperandsConcat
<1>8. AllOperands(a, b) = SubSeq(a, p, L) /\ Ahead(a, b).found = <<>>
  <2> DEFINE x == SubSeq(a, p, L)
  <2>1. Ahead(a, b).found = <<>> /\ Ahead(a, b).operands = x
    <3>1. R[p] = [found |-> <<>>, operands |-> x]
      BY <1>4
    <3> HIDE DEF x
    <3> QED BY <1>3, <3>1
  <2> QED BY <1>2, <1>7, <2>1 DEF AllOperands
<1>9. e.nextchar = <<>> /\ e.c = "EOF" /\ e.ordering = b.ordering /\ e.argv = b.argv
      /\ e.optind = p
  BY <1>1 DEF Scans, p
<1> HIDE DEF e
<1>10. Ended(a, b, e)
  BY <1>1, <1>5, <1>8, <1>9 DEF Ended
<1> QED BY <1>10 DEF e

(* An element with options.                                                *)
LEMMA OptionReached ==
  ASSUME NEW a \in Operands, NEW b, Positioned(a, b), b.nextchar = <<>>,
         b.optind <= Len(a), IsOption(a[b.optind]), a[b.optind] # <<"-", "-">>
  PROVE  Reached(a, b, [b EXCEPT !.nextchar = Tail(b.argv[b.optind])])
<1> DEFINE p == b.optind
           e == a[p]
           w == Tail(e)
           t == [b EXCEPT !.nextchar = Tail(b.argv[b.optind])]
<1>1. /\ b \in Scans /\ p \in 1..Len(a) /\ e \in Texts /\ Len(e) \in Nat /\ b.argv[p] = e
      /\ 2 <= Len(e)
  <2>1. p \in 1..Len(a) /\ b \in Scans /\ b.argv[p] = e
    BY DEF Positioned, Scans, Operands
  <2>2. e \in Texts /\ Len(e) \in Nat
    BY <2>1 DEF Operands, Texts
  <2>3. 2 <= Len(e)
    <3>1. Len(e) >= 2
      BY DEF IsOption
    <3> HIDE DEF e
    <3> QED BY <2>2, <3>1
  <2> QED BY <2>1, <2>2, <2>3
<1>2. t = [b EXCEPT !.nextchar = w]
  BY <1>1
<1> HIDE DEF e, t
<1>3. w \in Texts /\ Len(w) = Len(e) - 1
  <2>1. e \in Seq(STRING) /\ e # <<>>
    BY <1>1 DEF Texts
  <2> QED BY <2>1, HeadTailProperties DEF Texts
<1>4. w = SubSeq(e, 2, Len(e))
  <2>1. e \in Seq(STRING) /\ 1 \in 1..Len(e) /\ Len(e) \in 1..Len(e) /\ 1 + 1 = 2
    BY <1>1 DEF Texts
  <2>2. Tail(SubSeq(e, 1, Len(e))) = SubSeq(e, 1 + 1, Len(e))
    BY <2>1, HeadTailOfSubSeq
  <2>3. SubSeq(e, 1, Len(e)) = e
    BY <2>1, SubSeqFull
  <2> QED BY <2>1, <2>2, <2>3
<1> HIDE DEF w
<1>5. w # <<>> /\ Len(w) < Len(e) /\ Len(e) - Len(w) + 1 = 2
  <2>1. Len(w) \in Nat \ {0} /\ Len(w) < Len(e) /\ Len(e) - Len(w) + 1 = 2
    BY <1>1, <1>3
  <2>2. w # <<>>
    BY <2>1
  <2> QED BY <2>1, <2>2
<1>6. /\ t \in Scans /\ t.nextchar = w /\ t.argv = b.argv /\ t.optind = p
      /\ t.first_nonopt = b.first_nonopt /\ t.last_nonopt = b.last_nonopt
      /\ t.ordering = b.ordering /\ t.optarg = b.optarg
  BY <1>1, <1>2, <1>3 DEF Scans
<1>7. Positioned(a, t) /\ Skipped(t) = Skipped(b)
  BY <1>6 DEF Positioned, Skipped
<1>8. LetterOf(a, t) = 2
  BY <1>5, <1>6 DEF LetterOf, e
<1> HIDE DEF p
<1>9. Within(a, t)
  BY <1>4, <1>5, <1>6, <1>8 DEF Within, e, p
<1>10. Ahead(a, t) = Ahead(a, b)
  <2>1. Ahead(a, t) = AfterLetters(a, b.ordering, p, 2)
    BY <1>5, <1>6, <1>8 DEF Ahead
  <2>2. Ahead(a, b) = Readings(a, b.ordering)[p]
    BY DEF Ahead, p
  <2>3. Readings(a, b.ordering)[p] = AfterLetters(a, b.ordering, p, 2)
    BY <1>1, OptionRead DEF e, p
  <2> QED BY <2>1, <2>2, <2>3
<1>11. AllOperands(a, t) = AllOperands(a, b)
  BY <1>7, <1>10 DEF AllOperands
<1>12. Reached(a, b, t)
  BY <1>5, <1>6, <1>7, <1>9, <1>10, <1>11 DEF Reached
<1> QED BY <1>12 DEF t

(* NextElement reaches one or the other.                                   *)
LEMMA ElementReached ==
  ASSUME NEW a \in Operands, NEW s, Positioned(a, s), s.nextchar = <<>>
  PROVE  Ended(a, s, NextElement(s)) \/ Reached(a, s, NextElement(s))
<1> DEFINE b == Behind(s)
           t == SkipDashes(b)
           v == NextElement(s)
<1>1. v = IF t.optind = argc(t)
          THEN [t EXCEPT !.c = "EOF", !.optind = IF t.first_nonopt # t.last_nonopt
                                                 THEN t.first_nonopt ELSE @]
          ELSE IF ~IsOption(t.argv[t.optind]) THEN [t EXCEPT !.c = "EOF"]
          ELSE [t EXCEPT !.nextchar = Tail(t.argv[t.optind])]
  BY Zenon DEF NextElement, Behind
<1>2. /\ Positioned(a, b) /\ SameScan(s, b)
      /\ b.ordering = "PERMUTE" =>
           /\ b.last_nonopt = b.optind
           /\ b.optind = Len(a) + 1 \/ IsOption(a[b.optind])
      /\ Ahead(a, b).found = Ahead(a, s).found
      /\ AllOperands(a, b) = AllOperands(a, s)
  BY BehindOperands
<1> HIDE DEF b, v
<1>3. b.nextchar = <<>> /\ b.ordering = s.ordering /\ b.optarg = s.optarg
  BY <1>2 DEF SameScan
<1>4. /\ b.optind \in 1..Len(a) + 1 /\ Len(a) \in Nat /\ Len(b.argv) = Len(a)
      /\ \A k \in b.optind..Len(a) : b.argv[k] = a[k]
  BY <1>2 DEF Positioned, Scans, Operands
<1>5. Ended(a, b, v) \/ Reached(a, b, v)
  <2>1. CASE b.optind = Len(a) + 1 \/ a[b.optind] = <<"-", "-">>
    <3> DEFINE e == [t EXCEPT !.c = "EOF", !.optind = IF t.first_nonopt # t.last_nonopt
                                                      THEN t.first_nonopt ELSE @]
    <3>1. t.optind = argc(t) /\ Ended(a, b, e)
      BY <1>2, <1>3, <2>1, EndReached
    <3> HIDE DEF t, e
    <3>2. v = e
      BY <1>1, <3>1 DEF e
    <3> QED BY <3>1, <3>2
  <2>2. CASE b.optind # Len(a) + 1 /\ a[b.optind] # <<"-", "-">>
    <3>1. t = b
      BY <1>2, <2>2, DashesSkipped
    <3> HIDE DEF t
    <3>2. b.optind <= Len(a) /\ b.optind # argc(b) /\ b.argv[b.optind] = a[b.optind]
      BY <1>4, <2>2 DEF argc
    <3>3. v = IF ~IsOption(a[b.optind]) THEN [b EXCEPT !.c = "EOF"]
              ELSE [b EXCEPT !.nextchar = Tail(b.argv[b.optind])]
      BY <1>1, <3>1, <3>2
    <3>4. CASE ~IsOption(a[b.optind])
      <4>1. b.ordering # "PERMUTE"
        BY <1>2, <2>2, <3>4
      <4>2. Ended(a, b, [b EXCEPT !.c = "EOF"])
        BY <1>2, <1>3, <3>2, <3>4, <4>1, OperandReached
      <4> QED BY <3>3, <3>4, <4>2
    <3>5. CASE IsOption(a[b.optind])
      <4>1. Reached(a, b, [b EXCEPT !.nextchar = Tail(b.argv[b.optind])])
        BY <1>2, <1>3, <2>2, <3>2, <3>5, OptionReached
      <4> QED BY <3>3, <3>5, <4>1
    <3> QED BY <3>4, <3>5
  <2> QED BY <2>1, <2>2
<1>6. Ended(a, b, v) => Ended(a, s, v)
  BY <1>2, <1>3 DEF Ended
<1>7. Reached(a, b, v) => Reached(a, s, v)
  BY <1>2, <1>3 DEF Reached
<1> QED BY <1>5, <1>6, <1>7 DEF v

(* A call of getopt: it ends with all the operands, or returns the next    *)
(* option and leaves the others, and the operands, to be found.            *)
Ends(a, s, t) ==
  /\ t.c = "EOF" /\ t.ordering = s.ordering
  /\ Ahead(a, s).found = <<>>
  /\ SubSeq(t.argv, t.optind, Len(t.argv)) = AllOperands(a, s)
Returns(a, s, t) ==
  /\ t.c # "EOF" /\ t.ordering = s.ordering /\ Positioned(a, t) /\ Within(a, t)
  /\ <<t.c, t.optarg>> \in Codes \X Texts
  /\ Ahead(a, s).found = <<<<t.c, t.optarg>>>> \o Ahead(a, t).found
  /\ AllOperands(a, t) = AllOperands(a, s)

(* NextOption returns the next option.                                     *)
LEMMA NextOptionReturns ==
  ASSUME NEW a \in Operands, NEW s, Positioned(a, s), Within(a, s), s.nextchar # <<>>,
         s.optarg = <<>>
  PROVE  Returns(a, s, NextOption(s))
<1> DEFINE t == NextOption(s)
           x == <<t.c, t.optarg>>
<1>1. /\ Positioned(a, t) /\ Within(a, t) /\ t.ordering = s.ordering
      /\ Skipped(t) = Skipped(s)
      /\ t.c # "EOF" /\ x \in Codes \X Texts
      /\ Ahead(a, s) = Join(<<x>>, Ahead(a, t))
  BY OptionReturned
<1> HIDE DEF t
<1>2. Ahead(a, s).found = <<x>> \o Ahead(a, t).found
      /\ Ahead(a, s).operands = Ahead(a, t).operands
  BY <1>1 DEF Join
<1>3. AllOperands(a, t) = AllOperands(a, s)
  BY <1>1, <1>2 DEF AllOperands
<1>4. Returns(a, s, t)
  BY <1>1, <1>2, <1>3 DEF Returns
<1> QED BY <1>4 DEF t

(* A call of getopt.                                                       *)
LEMMA GetoptReturns ==
  ASSUME NEW a \in Operands, NEW s, Positioned(a, s), Within(a, s)
  PROVE  Ends(a, s, getopt(s)) \/ Returns(a, s, getopt(s))
<1> DEFINE z == [s EXCEPT !.optarg = <<>>]
           u == NextElement(z)
           t == getopt(s)
<1>1. t = IF u.nextchar = <<>> THEN u ELSE NextOption(u)
  BY Zenon DEF getopt
<1>2. s \in Scans /\ <<>> \in Texts
  BY DEF Positioned, Texts
<1>3. /\ z \in Scans /\ z.argv = s.argv /\ z.optind = s.optind /\ z.nextchar = s.nextchar
      /\ z.first_nonopt = s.first_nonopt /\ z.last_nonopt = s.last_nonopt
      /\ z.ordering = s.ordering /\ z.optarg = <<>>
  BY <1>2 DEF Scans
<1> HIDE DEF z, t
<1>4. Positioned(a, z) /\ Skipped(z) = Skipped(s)
  BY <1>3 DEF Positioned, Skipped
<1>5. LetterOf(a, z) = LetterOf(a, s)
  BY <1>3 DEF LetterOf
<1>6. Within(a, z)
  BY <1>3, <1>5 DEF Within
<1>7. Ahead(a, z) = Ahead(a, s)
  BY <1>3, <1>5 DEF Ahead
<1>8. AllOperands(a, z) = AllOperands(a, s)
  BY <1>4, <1>7 DEF AllOperands
<1>9. Ends(a, z, t) \/ Returns(a, z, t)
  <2>1. CASE z.nextchar # <<>>
    <3>1. u = z
      BY <2>1 DEF NextElement
    <3>2. t = NextOption(z)
      BY <1>1, <2>1, <3>1
    <3> QED BY <1>3, <1>4, <1>6, <2>1, <3>2, NextOptionReturns
  <2>2. CASE z.nextchar = <<>>
    <3>1. Ended(a, z, u) \/ Reached(a, z, u)
      BY <1>4, <2>2, ElementReached
    <3> HIDE DEF u
    <3>2. CASE Ended(a, z, u)
      <4>1. t = u
        BY <1>1, <3>2 DEF Ended
      <4> QED BY <3>2, <4>1 DEF Ended, Ends
    <3>3. CASE Reached(a, z, u)
      <4>1. /\ u.nextchar # <<>> /\ Positioned(a, u) /\ Within(a, u)
            /\ u.optarg = <<>> /\ u.ordering = z.ordering
            /\ Ahead(a, u).found = Ahead(a, z).found
            /\ AllOperands(a, u) = AllOperands(a, z)
        BY <1>3, <3>3 DEF Reached
      <4>2. t = NextOption(u)
        BY <1>1, <4>1
      <4>3. Returns(a, u, t)
        BY <4>1, <4>2, NextOptionReturns
      <4> QED BY <4>1, <4>3 DEF Returns
    <3> QED BY <3>1, <3>2, <3>3
  <2> QED BY <2>1, <2>2
<1>10. Ends(a, z, t) => Ends(a, s, t)
  BY <1>3, <1>7, <1>8 DEF Ends
<1>11. Returns(a, z, t) => Returns(a, s, t)
  BY <1>3, <1>7, <1>8 DEF Returns
<1> QED BY <1>9, <1>10, <1>11 DEF t

----------------------------------------------------------------------------
(* The calls of parseCmdLine.                                              *)

(* Between two of them: what was returned, and what is ahead, is what one  *)
(* reading of the command line finds; so are the operands skipped and      *)
(* those ahead.                                                            *)
Scanning(a, s, r) ==
  /\ Positioned(a, s) /\ Within(a, s) /\ s.c # "EOF" /\ r \in Found
  /\ Parse(a, s.ordering).found = r \o Ahead(a, s).found
  /\ Parse(a, s.ordering).operands = AllOperands(a, s)

Finds(a, s, r) ==
  /\ IsPrefix(r, Parse(a, s.ordering).found)
  /\ s.c = "EOF" =>
       /\ r = Parse(a, s.ordering).found
       /\ SubSeq(s.argv, s.optind, Len(s.argv)) = Parse(a, s.ordering).operands

(* What comes first is a prefix.                                           *)
LEMMA FoundPrefix ==
  ASSUME NEW r \in Found, NEW g \in Found
  PROVE  IsPrefix(r, r \o g)
<1> DEFINE T == Codes \X Texts
           m == Len(r)
<1>1. r \in Seq(T) /\ g \in Seq(T)
  BY DEF Found
<1> HIDE DEF T
<1>2. m \in Nat /\ Len(g) \in Nat /\ Len(r \o g) = m + Len(g)
  BY <1>1, ConcatProperties
<1>3. m <= Len(r \o g)
  BY <1>2
<1>4. SubSeq(r, 1, m) = SubSeq(r \o g, 1, m)
  <2>1. CASE m = 0
    <3>1. m < 1 /\ m \in Int /\ 1 \in Int
      BY <2>1
    <3> HIDE DEF m
    <3>2. SubSeq(r, 1, m) = <<>> /\ SubSeq(r \o g, 1, m) = <<>>
      BY <3>1, SubSeqEmpty
    <3> QED BY <3>2
  <2>2. CASE m # 0
    <3>1. 1 \in 1..Len(r) /\ m \in 1..Len(r)
      BY <1>2, <2>2
    <3> QED BY <1>1, <3>1, SubSeqOfConcat1
  <2> QED BY <2>1, <2>2
<1> QED BY <1>3, <1>4 DEF IsPrefix

(* What is ahead is found and left.                                        *)
LEMMA ScanningFinds ==
  ASSUME NEW a \in Operands, NEW s, NEW r, Scanning(a, s, r)
  PROVE  Finds(a, s, r)
<1>1. r \in Found /\ s.c # "EOF" /\ Parse(a, s.ordering).found = r \o Ahead(a, s).found
  BY DEF Scanning
<1>2. Ahead(a, s) \in Read
  BY AheadRead DEF Scanning
<1>3. Ahead(a, s).found \in Found
  BY <1>2 DEF Read
<1> QED BY <1>1, <1>3, FoundPrefix DEF Finds

(* The first call begins at the first element.                             *)
LEMMA ScanBegins ==
  ASSUME NEW a \in Operands, NEW order \in {"PERMUTE", "REQUIRE_ORDER"}
  PROVE  Scanning(a, Scan(a, order), <<>>)
<1> DEFINE s == Scan(a, order)
           R == Readings(a, order)
<1>1. Len(a) \in Nat /\ 1 \in 1..Len(a) + 1 /\ <<>> \in Texts /\ <<>> \in Found
      /\ <<>> \in Operands
  BY DEF Operands, Texts, Found
<1>2. /\ s.argv = a /\ s.ordering = order /\ s.optind = 1 /\ s.nextchar = <<>>
      /\ s.first_nonopt = 1 /\ s.last_nonopt = 1 /\ s.c = "none" /\ s.optarg = <<>>
      /\ s \in Scans
  BY <1>1 DEF Scan, Scans
<1>3. R[1] \in Read
  BY <1>1, ReadingsTyped
<1> HIDE DEF s, R
<1>4. Positioned(a, s)
  BY <1>1, <1>2 DEF Positioned
<1>5. Within(a, s) /\ s.c # "EOF"
  BY <1>2 DEF Within
<1>6. Ahead(a, s) = R[1] /\ Parse(a, s.ordering) = R[1]
  BY <1>2 DEF Ahead, Parse, R
<1>7. Skipped(s) = <<>>
  BY <1>2, <1>4, SkippedTyped
<1>8. <<>> \o R[1].found = R[1].found /\ <<>> \o R[1].operands = R[1].operands
  <2>1. R[1].found \in Found /\ R[1].operands \in Operands
    BY <1>3 DEF Read
  <2> QED BY <2>1, FoundConcat, OperandsConcat
<1>9. Parse(a, s.ordering).operands = AllOperands(a, s)
  BY <1>6, <1>7, <1>8 DEF AllOperands
<1>10. Scanning(a, s, <<>>)
  BY <1>1, <1>4, <1>5, <1>6, <1>8, <1>9 DEF Scanning
<1> QED BY <1>10 DEF s

(* A call that returns an option.                                          *)
LEMMA ScanningGoesOn ==
  ASSUME NEW a \in Operands, NEW s, NEW r, Scanning(a, s, r), getopt(s).c # "EOF"
  PROVE  LET t == getopt(s) IN Scanning(a, t, Append(r, <<t.c, t.optarg>>))
<1> DEFINE t == getopt(s)
           x == <<t.c, t.optarg>>
           f == <<x>>
           g == Ahead(a, t).found
<1>1. /\ Positioned(a, s) /\ Within(a, s) /\ r \in Found
      /\ Parse(a, s.ordering).found = r \o Ahead(a, s).found
      /\ Parse(a, s.ordering).operands = AllOperands(a, s)
  BY DEF Scanning
<1>2. t.c # "EOF"
  OBVIOUS
<1>3. Ends(a, s, t) \/ Returns(a, s, t)
  BY <1>1, GetoptReturns
<1> HIDE DEF t
<1>4. /\ t.ordering = s.ordering /\ Positioned(a, t) /\ Within(a, t)
      /\ x \in Codes \X Texts
      /\ Ahead(a, s).found = f \o g
      /\ AllOperands(a, t) = AllOperands(a, s)
  BY <1>2, <1>3 DEF Ends, Returns
<1>5. Ahead(a, t) \in Read
  BY <1>4, AheadRead
<1>6. g \in Found
  BY <1>5 DEF Read
<1> HIDE DEF g, x
<1>7. Append(r, x) \in Found /\ Append(r, x) = r \o f /\ f \in Found
  BY <1>1, <1>4, FoundAppend
<1> HIDE DEF f
<1>8. (r \o f) \o g = r \o (f \o g)
  BY <1>1, <1>6, <1>7, FoundAssociative
<1>9. Parse(a, t.ordering).found = Append(r, x) \o g
  BY <1>1, <1>4, <1>7, <1>8
<1>10. Scanning(a, t, Append(r, x))
  BY <1>1, <1>2, <1>4, <1>7, <1>9 DEF Scanning, g
<1> QED BY <1>10 DEF t, x

(* A call that ends the options.                                           *)
LEMMA ScanningEnds ==
  ASSUME NEW a \in Operands, NEW s, NEW r, Scanning(a, s, r), getopt(s).c = "EOF"
  PROVE  Finds(a, getopt(s), r)
<1> DEFINE t == getopt(s)
           P == Parse(a, s.ordering)
<1>1. /\ Positioned(a, s) /\ Within(a, s) /\ r \in Found
      /\ P.found = r \o Ahead(a, s).found /\ P.operands = AllOperands(a, s)
  BY DEF Scanning
<1>2. t.c = "EOF"
  OBVIOUS
<1>3. Ends(a, s, t) \/ Returns(a, s, t)
  BY <1>1, GetoptReturns
<1>4. Finds(a, s, r)
  BY ScanningFinds
<1> HIDE DEF t
<1>5. /\ t.ordering = s.ordering /\ Ahead(a, s).found = <<>>
      /\ SubSeq(t.argv, t.optind, Len(t.argv)) = P.operands
  BY <1>1, <1>2, <1>3 DEF Ends, Returns
<1>6. r = P.found
  BY <1>1, <1>5, FoundConcat
<1>7. IsPrefix(r, P.found)
  BY <1>4 DEF Finds
<1>8. Finds(a, t, r)
  BY <1>5, <1>6, <1>7 DEF Finds
<1> QED BY <1>8 DEF t

(* The inductive invariant: until the command line is parsed, what was     *)
(* found and what is ahead is what one reading of it finds; then nothing   *)
(* of it changes.                                                          *)
GetoptInv ==
  /\ phase = "exec" => results = <<>>
  /\ phase \in {"exec", "initOptions", "parse"} =>
       args \in Operands /\ Scanning(args, scan, results)
  /\ Finds(args, scan, results)

(* For every command line, in either order: getopt returns the options     *)
(* that one reading finds, in their order, and ends at the operands, all   *)
(* of them, in theirs, although it permutes argv while it scans it.        *)
THEOREM GetoptFindsAllOptions == Spec => []GetoptFindsOptions
<1>1. Init => GetoptInv
  <2> SUFFICES ASSUME Init
               PROVE  GetoptInv
    OBVIOUS
  <2>1. args = <<>> /\ scan = Scan(<<>>, "PERMUTE") /\ results = <<>>
    BY DEF Init, StartupInit
  <2>2. <<>> \in Operands
    BY DEF Operands
  <2>3. Scanning(args, scan, results)
    BY <2>1, <2>2, ScanBegins
  <2>4. Finds(args, scan, results)
    BY <2>1, <2>2, <2>3, ScanningFinds
  <2> QED BY <2>1, <2>2, <2>3, <2>4 DEF GetoptInv
<1>2. GetoptInv /\ [Next]_partsVars => GetoptInv'
  <2>1. ASSUME GetoptInv, UNCHANGED startupVars
        PROVE  GetoptInv'
    BY <2>1 DEF startupVars, GetoptInv
  <2>2. ASSUME GetoptInv, StartupNext
        PROVE  GetoptInv'
    <3>1. ASSUME NEW v \in {"1.4", "1.5"}, NEW a \in CommandLines,
                 NEW order \in {"PERMUTE", "REQUIRE_ORDER"}, Exec(v, a, order)
          PROVE  GetoptInv'
      <4>1. args' = a /\ scan' = Scan(a, order) /\ results' = <<>> /\ phase' = "initOptions"
        BY <2>2, <3>1 DEF Exec, GetoptInv
      <4>2. a \in Operands
        BY StartupAssumption DEF Operands, Texts
      <4>3. Scanning(a, Scan(a, order), <<>>)
        BY <4>2, ScanBegins
      <4>4. Finds(a, Scan(a, order), <<>>)
        BY <4>2, <4>3, ScanningFinds
      <4> QED BY <4>1, <4>2, <4>3, <4>4 DEF GetoptInv
    <3>2. ASSUME ParseOption
          PROVE  GetoptInv'
      <4> DEFINE s == getopt(scan)
                 r == Append(results, <<s.c, s.optarg>>)
      <4>1. /\ phase = "parse" /\ s.c # "EOF" /\ phase' # "exec"
            /\ scan' = s /\ results' = r /\ args' = args
        BY <3>2 DEF ParseOption
      <4>2. args \in Operands /\ Scanning(args, scan, results)
        BY <2>2, <4>1 DEF GetoptInv
      <4>3. Scanning(args, s, r)
        BY <4>1, <4>2, ScanningGoesOn
      <4> HIDE DEF s, r
      <4>4. Finds(args, s, r)
        BY <4>2, <4>3, ScanningFinds
      <4> QED BY <4>1, <4>2, <4>3, <4>4 DEF GetoptInv
    <3>3. ASSUME ParserStays, phase' = "exec" => phase = "exec",
                 phase' \in {"initOptions", "parse"} => phase \in {"initOptions", "parse"}
          PROVE  GetoptInv'
      BY <2>2, <3>3 DEF ParserStays, GetoptInv
    <3>4. ASSUME ParseEnds
          PROVE  GetoptInv'
      <4> DEFINE s == getopt(scan)
      <4>1. /\ phase = "parse" /\ s.c = "EOF" /\ phase' \in {"exit", "openReadfd"}
            /\ scan' = s /\ results' = results /\ args' = args
        BY <3>4 DEF ParseEnds
      <4>2. args \in Operands /\ Scanning(args, scan, results)
        BY <2>2, <4>1 DEF GetoptInv
      <4>3. Finds(args, s, results)
        BY <4>1, <4>2, ScanningEnds
      <4> HIDE DEF s
      <4> QED BY <4>1, <4>3 DEF GetoptInv
    <3>5. ASSUME MainStep
          PROVE  GetoptInv'
      <4>1. CASE InitOptions \/ OpenReadfd \/ OpenWritfd \/ OpenQueue \/ PrintTitle
        BY <3>3, <4>1 DEF InitOptions, OpenReadfd, OpenWritfd, OpenQueue, PrintTitle, Opens, Goes
      <4>2. CASE SetStdin \/ SetSigint \/ SetReadfd \/ StartLoop
        BY <3>3, <4>2 DEF SetStdin, SetSigint, SetReadfd, StartLoop, Installs, Goes
      <4>3. CASE LoopEnds \/ PrintStatistics \/ Destroy \/ Return
        BY <3>3, <4>3 DEF LoopEnds, PrintStatistics, Destroy, Return, Closes, Goes
      <4> QED BY <3>5, <4>1, <4>2, <4>3 DEF MainStep
    <3>6. ASSUME Fails \/ LoopFails \/ LoopFails14
          PROVE  GetoptInv'
      BY <3>3, <3>6 DEF Fails, LoopFails, LoopFails14, Goes
    <3>7. ASSUME Traffic \/ StopCommand \/ ErrorStop
          PROVE  GetoptInv'
      BY <3>3, <3>7 DEF Traffic, StopCommand, ErrorStop, InLoop
    <3>8. ASSUME Killed \/ sigHandler \/ sigHandlerInReadHandler \/ UseAfterClose
          PROVE  GetoptInv'
      BY <3>3, <3>8 DEF Killed, sigHandler, sigHandlerInReadHandler, UseAfterClose, Interrupt
    <3> QED BY <2>2, <3>1, <3>2, <3>4, <3>5, <3>6, <3>7, <3>8 DEF StartupNext
  <2> QED BY <2>1, <2>2 DEF Next, OthersStay, partsVars
<1>3. GetoptInv => GetoptFindsOptions
  BY DEF GetoptInv, Finds, GetoptFindsOptions
<1> QED BY <1>1, <1>2, <1>3, PTL DEF Spec
=============================================================================
