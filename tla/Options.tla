------------------------------- MODULE Options ------------------------------
(***************************************************************************)
(* newudpl-1.5/newudpl.c, akiralib.c and host2ip.c: what the arguments of  *)
(* the options become.  A piece of text is a number, a host, a separator   *)
(* or junk; NumberOf and AddressOf say what a piece means.                 *)
(***************************************************************************)
EXTENDS Getopt

CONSTANTS NumberOf,       \* strtol of the texts that start with a number
          FractionOf,     \* their microseconds, as digits after a point
          AddressOf,      \* what inet_addr or gethostbyname finds for a text
          Localhost, INADDR_ANY, INADDR_NONE

\* The limits of the options.
MaxUsec    == 999999
Usecs      == 0..MaxUsec
UserPorts  == 1024..65535
Ports      == 0..65535
Speeds     == 1..50000
QueueSizes == 1..16384
BitErrors  == 0..99999
Percents   == 0..99
Ethers     == <<10000, 100000, 1000000>>

\* What is found for a text is never the value that inet_addr fails with.
ASSUME OptionsAssumption ==
  /\ \A text \in DOMAIN FractionOf : FractionOf[text] \in Usecs
  /\ \A text \in DOMAIN AddressOf : AddressOf[text] # INADDR_NONE
  /\ Localhost \notin {INADDR_ANY, INADDR_NONE} /\ INADDR_ANY # INADDR_NONE

\* initOptions.
Defaults ==
  [readPort |-> 41192, writPort |-> 41193,
   srceHostIpN |-> Localhost, srceHostPort |-> 41191,
   destHostIpN |-> Localhost, destHostPort |-> 41194,
   speed |-> 1000, ether |-> 10000, delay |-> [tv_sec |-> 0, tv_usec |-> 0],
   inQBufSize |-> 8192, bitError |-> 0, randomLoss |-> 0,
   gilCondLoss |-> <<0, 0>>, gilUncondLoss |-> <<0, 0>>, outOfOrder |-> 0,
   calcMode |-> 0, verbose |-> 0, errF |-> FALSE]

Error == -1
Null  == <<>>     \* no text, or no token left

\* What follows a number other than 0 is ignored.
str2l(text, limits) ==
  LET number == text # Null /\ Head(text) \in DOMAIN NumberOf
      l      == IF number THEN NumberOf[Head(text)] ELSE 0
  IN  IF (l = 0 /\ (~number \/ Len(text) > 1)) \/ l \notin limits THEN Error ELSE l

\* All the tokens that strtok finds.
strtok(text, separators) ==
  LET add(tokens, i) ==
        IF text[i] \in separators THEN tokens
        ELSE IF i > 1 /\ text[i - 1] \notin separators
        THEN [tokens EXCEPT ![Len(tokens)] = Append(@, text[i])]
        ELSE Append(tokens, <<text[i]>>)
  IN  FoldLeft(add, <<>>, [i \in 1..Len(text) |-> i])

Token(tokens, i) == IF i <= Len(tokens) THEN tokens[i] ELSE Null

\* A field takes a number, unless it is an error.
SetNumber(o, field, l) ==
  IF l = Error THEN [o EXCEPT !.errF = TRUE] ELSE [o EXCEPT ![field] = l]

\* "recv:send", either of which may be missing.
getPorts(o, text) ==
  LET tokens == strtok(text, {":"})
      port(i) == str2l(Token(tokens, i), UserPorts)
  IN  IF text # Null /\ Head(text) = ":" THEN SetNumber(o, "writPort", port(1))
      ELSE IF Len(tokens) < 2 THEN SetNumber(o, "readPort", port(1))
      ELSE IF port(1) = Error THEN [o EXCEPT !.errF = TRUE]
      ELSE SetNumber([o EXCEPT !.readPort = port(1)], "writPort", port(2))

\* newudpl-1.4: a name that nothing resolves keeps inet_addr's error value.
host2ip14(name) == IF name \in DOMAIN AddressOf THEN AddressOf[name] ELSE INADDR_NONE

\* The system without YP: a name that is not found is INADDR_ANY.
host2ip(name) == IF name \in DOMAIN AddressOf THEN AddressOf[name] ELSE INADDR_ANY

resolve(version, name) == IF version = "1.4" THEN host2ip14(name) ELSE host2ip(name)

\* host, then ':' or '/' and a port, then nothing; '*' is any port.
getHost(o, ipN, portN, text, version) ==
  LET tokens == strtok(text, {":", "/"})
      ip     == IF tokens = <<>> THEN o[ipN] ELSE resolve(version, tokens[1][1])
      t      == [o EXCEPT ![ipN] = ip]
  IN  IF ip = INADDR_ANY THEN [o EXCEPT !.errF = TRUE]
      ELSE IF Len(tokens) < 2 THEN t
      ELSE IF tokens[2][1] = "*" THEN [t EXCEPT ![portN] = 0]
      ELSE SetNumber(t, portN, str2l(tokens[2], Ports))

\* Mutant: any number of seconds.
getSecAny(o, text, maxSec) ==
  LET sec == str2l(Token(strtok(text, {"."}), 1), 0..100)
  IN  IF sec = Error THEN [o EXCEPT !.errF = TRUE] ELSE [o EXCEPT !.delay.tv_sec = sec]

\* Digits after the point are filled up to microseconds, but for the digits
\* of a text with junk behind them.  A text that starts with the point has its
\* digits taken as seconds.
getSec(o, text, maxSec) ==
  LET tokens == strtok(text, {"."})
      sec    == str2l(Token(tokens, 1), 0..maxSec)
      digits == Token(tokens, 2)
      usec   == IF Len(digits) = 1 /\ digits[1] \in DOMAIN FractionOf
                THEN FractionOf[digits[1]] ELSE str2l(digits, Usecs)
      t      == IF tokens = <<>> THEN o ELSE [o EXCEPT !.delay.tv_sec = sec]
  IN  IF (tokens # <<>> /\ sec = Error) \/ (digits # Null /\ usec = Error)
      THEN [o EXCEPT !.errF = TRUE]
      ELSE IF digits = Null THEN t ELSE [t EXCEPT !.delay.tv_usec = usec]

getEther(text) ==
  LET l == str2l(text, 1..3) IN IF l = Error THEN Error ELSE Ethers[l]

\* strtod: the whole and the millionths.
strtod(text) ==
  LET whole == text # Null /\ Head(text) \in DOMAIN NumberOf
      point == IF whole THEN 2 ELSE 1
      digits == point + 1 \in DOMAIN text /\ text[point] = "."
                  /\ text[point + 1] \in DOMAIN FractionOf
  IN  <<IF whole THEN NumberOf[Head(text)] ELSE 0,
        IF digits THEN FractionOf[text[point + 1]] ELSE 0>>

\* 0 counts as an error, and nothing else does.
SetProbability(o, field, text) ==
  IF strtod(text) = <<0, 0>> THEN [o EXCEPT !.errF = TRUE] ELSE [o EXCEPT ![field] = strtod(text)]

\* The switch of parseCmdLine, for the options that set something.
SetOption(o, c, text, version) ==
  CASE c = "p" -> getPorts(o, text)
    [] c = "i" -> getHost(o, "srceHostIpN", "srceHostPort", text, version)
    [] c = "o" -> getHost(o, "destHostIpN", "destHostPort", text, version)
    [] c = "d" -> getSec(o, text, 10)
    [] c = "s" -> SetNumber(o, "speed", str2l(text, Speeds))
    [] c = "e" -> SetNumber(o, "ether", getEther(text))
    [] c = "q" -> SetNumber(o, "inQBufSize", str2l(text, QueueSizes))
    [] c = "B" -> SetNumber(o, "bitError", str2l(text, BitErrors))
    [] c = "L" -> SetNumber(o, "randomLoss", str2l(text, Percents))
    [] c = "C" -> SetProbability(o, "gilCondLoss", text)
    [] c = "U" -> SetProbability(o, "gilUncondLoss", text)
    [] c = "O" -> SetNumber(o, "outOfOrder", str2l(text, Percents))
    [] c = "m" -> [o EXCEPT !.calcMode = 1]
    [] c = "v" -> [o EXCEPT !.verbose = @ + 1]
    [] OTHER   -> o
=============================================================================
