------------------------------- MODULE Getopt -------------------------------
(***************************************************************************)
(* newudpl-1.5/getopt.c for short options: the scan of argv that moves the *)
(* operands behind the options while it goes.  An element of argv is a     *)
(* sequence of dashes, option letters and pieces of text.  Indices are     *)
(* C's: argv[0], the program, is left out, and argc is one past the end.   *)
(***************************************************************************)
EXTENDS Integers, SequencesExt

CONSTANTS Flags, TakeArgument    \* the letters of optstring, without and with ':'

\* Each letter is there once, and none is -1, the end of the options.
ASSUME GetoptAssumption ==
  /\ Flags \cup TakeArgument \subseteq STRING \ {"EOF"}
  /\ Flags \cap TakeArgument = {}

argc(s) == Len(s.argv) + 1

\* The static variables between two calls, the result and optarg of the last.
Scan(args, order) ==
  [argv |-> args, ordering |-> order, optind |-> 1, nextchar |-> <<>>,
   first_nonopt |-> 1, last_nonopt |-> 1, c |-> "none", optarg |-> <<>>]

IsOption(e) == Len(e) >= 2 /\ e[1] = "-"

\* Mutant: the skipped operands keep the place they had.
ExchangeInPlace(s) ==
  LET operands == SubSeq(s.argv, s.first_nonopt, s.last_nonopt - 1)
      options  == SubSeq(s.argv, s.last_nonopt, s.optind - 1)
  IN  [s EXCEPT !.argv = SubSeq(@, 1, s.first_nonopt - 1) \o options \o operands
                           \o SubSeq(@, s.optind, Len(@)),
                !.last_nonopt = s.optind]

\* The operands skipped so far and the options after them change places.
exchange(s) ==
  LET operands == SubSeq(s.argv, s.first_nonopt, s.last_nonopt - 1)
      options  == SubSeq(s.argv, s.last_nonopt, s.optind - 1)
  IN  [s EXCEPT !.argv = SubSeq(@, 1, s.first_nonopt - 1) \o options \o operands
                           \o SubSeq(@, s.optind, Len(@)),
                !.first_nonopt = @ + Len(options),
                !.last_nonopt = s.optind]

\* The operands skipped before the last options go behind them.
MoveSkipped(s) ==
  IF s.last_nonopt = s.optind THEN s
  ELSE IF s.first_nonopt # s.last_nonopt THEN exchange(s)
  ELSE [s EXCEPT !.first_nonopt = s.optind]

SkipOperands(s) ==
  LET next == Min({argc(s)} \cup {i \in s.optind..Len(s.argv) : IsOption(s.argv[i])})
  IN  [s EXCEPT !.optind = next, !.last_nonopt = next]

\* "--" is skipped like an option, all that follows like operands.
SkipDashes(s) ==
  IF s.optind = argc(s) \/ s.argv[s.optind] # <<"-", "-">> THEN s
  ELSE LET t == [s EXCEPT !.optind = @ + 1]
           u == IF t.first_nonopt = t.last_nonopt
                THEN [t EXCEPT !.first_nonopt = t.optind] ELSE MoveSkipped(t)
       IN  [u EXCEPT !.last_nonopt = argc(s), !.optind = argc(s)]

\* To the next element with options, if the last one is used up.
NextElement(s) ==
  IF s.nextchar # <<>> THEN s
  ELSE LET t == SkipDashes(IF s.ordering = "PERMUTE" THEN SkipOperands(MoveSkipped(s)) ELSE s)
       IN  IF t.optind = argc(t)
           THEN [t EXCEPT !.c = "EOF", !.optind = IF t.first_nonopt # t.last_nonopt
                                                  THEN t.first_nonopt ELSE @]
           ELSE IF ~IsOption(t.argv[t.optind]) THEN [t EXCEPT !.c = "EOF"]
           ELSE [t EXCEPT !.nextchar = Tail(t.argv[t.optind])]

\* The next letter, and its argument: the rest of its element or the next one.
NextOption(s) ==
  LET c    == Head(s.nextchar)
      rest == Tail(s.nextchar)
      t    == [s EXCEPT !.nextchar = rest, !.optind = IF rest = <<>> THEN @ + 1 ELSE @]
  IN  IF c \in Flags THEN [t EXCEPT !.c = c]
      ELSE IF c \notin TakeArgument THEN [t EXCEPT !.c = "?"]
      ELSE IF rest # <<>>
           THEN [t EXCEPT !.c = c, !.optarg = rest, !.optind = @ + 1, !.nextchar = <<>>]
      ELSE IF t.optind = argc(t) THEN [t EXCEPT !.c = "?"]
      ELSE [t EXCEPT !.c = c, !.optarg = s.argv[t.optind], !.optind = @ + 1]

getopt(s) ==
  LET t == NextElement([s EXCEPT !.optarg = <<>>])
  IN  IF t.nextchar = <<>> THEN t ELSE NextOption(t)

-----------------------------------------------------------------------------
(* What POSIX and the comment at getopt.c:249 say getopt finds *)

\* The letters of element i from letter j on: each stands for itself, but the
\* first to take an argument takes the rest of the element, or the next one.
Letters(args, i, j) ==
  LET e     == args[i]
      k     == Min({Len(e) + 1} \cup {n \in j..Len(e) : e[n] \in TakeArgument})
      alone == [n \in 1..k - j |-> <<IF e[j + n - 1] \in Flags THEN e[j + n - 1] ELSE "?", <<>>>>]
      upTo(option, next) == [found |-> Append(alone, option), next |-> next]
  IN  IF k > Len(e) THEN [found |-> alone, next |-> i + 1]
      ELSE IF k < Len(e) THEN upTo(<<e[k], SubSeq(e, k + 1, Len(e))>>, i + 1)
      ELSE IF i = Len(args) THEN upTo(<<"?", <<>>>>, i + 1)
      ELSE upTo(<<e[k], args[i + 1]>>, i + 2)

\* The options and the operands from element i on, with those that are read
\* from later elements on.
ReadFrom(args, order, i, later) ==
  IF i > Len(args) THEN [found |-> <<>>, operands |-> <<>>]
  ELSE IF args[i] = <<"-", "-">>
  THEN [found |-> <<>>, operands |-> SubSeq(args, i + 1, Len(args))]
  ELSE IF IsOption(args[i])
  THEN LET letters == Letters(args, i, 2)
       IN  [later[letters.next] EXCEPT !.found = letters.found \o @]
  ELSE IF order = "PERMUTE" THEN [later[i + 1] EXCEPT !.operands = <<args[i]>> \o @]
  ELSE [found |-> <<>>, operands |-> SubSeq(args, i, Len(args))]

\* What is read from each element on, and what from the first.
Readings(args, order) ==
  LET from[i \in 1..Len(args) + 1] == ReadFrom(args, order, i, from) IN from

Parse(args, order) == Readings(args, order)[1]
=============================================================================
