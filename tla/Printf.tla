-------------------------------- MODULE Printf --------------------------------
(***************************************************************************)
(* printf: how it cuts a format into pieces, converts the arguments and    *)
(* counts what it prints.  A step is one turn of its loop, a piece of the  *)
(* output.  A caller passes the arguments that the format asks for, so an  *)
(* argument is chosen where va_arg reads it.                               *)
(*                                                                         *)
(* -value wraps, as it does in the build (no -O).                          *)
(* putchar never fails: it returns the byte it was given, and EOF is none. *)
(***************************************************************************)
EXTENDS Integers, Sequences, SequencesExt

CONSTANTS
  INT_MAX,   (* 2^31 - 1                                                    *)
  Formats,   (* formats, sequences of characters                            *)
  Ints,      (* arguments for %d and %x                                     *)
  Strings    (* arguments for %s                                            *)

ASSUME PrintfAssumption ==
  /\ INT_MAX \in Nat \ {0}
  /\ Formats \subseteq Seq(STRING) /\ Strings \subseteq Seq(STRING)
  /\ Ints \subseteq -INT_MAX - 1 .. INT_MAX

VARIABLES
  format,    (* the call's                                                  *)
  at,        (* how many characters of it are used up                       *)
  taken,     (* history: the arguments read so far                          *)
  out,       (* what has been printed                                       *)
  written,
  result     (* "none" while printf runs, then "count" or "overflow" (-1)   *)

printfVars == <<format, at, taken, out, written, result>>

Digit == <<"0", "1", "2", "3", "4", "5", "6", "7", "8", "9",
           "a", "b", "c", "d", "e", "f">>

-----------------------------------------------------------------------------
(* itoa.c                                                                   *)

Unsigned(v) == v % (2 * INT_MAX + 2)

\* Mutant: stops at 0 before the first digit.
DigitsOfNonzero(v, base) ==
  LET digits[u \in 0 .. v] ==
        IF u = 0 THEN <<>> ELSE Append(digits[u \div base], Digit[(u % base) + 1])
  IN digits[v]

\* The loop that divides and the one that copies the digits back.
Digits(v, base) ==
  LET digits[u \in 0 .. v] ==
        (IF u \div base = 0 THEN <<>> ELSE digits[u \div base]) \o << Digit[(u % base) + 1] >>
  IN digits[v]

itoa(v, base) ==
  IF base = 10 /\ v < 0 THEN <<"-">> \o Digits(Unsigned(-v), base) ELSE Digits(Unsigned(v), base)

-----------------------------------------------------------------------------
(* printf.c                                                                 *)

Rest == SubSeq(format, at + 1, Len(format))

Running == result = "none" /\ Rest # <<>>

\* Mutant: drops the comparison with what an int can still count.
FitsAlways(len) == TRUE

\* maxrem, a size_t.
Fits(len) == len <= INT_MAX - written

\* Prints a piece that takes length characters of the format, or gives up.
Piece(text, length) ==
  /\ at' = at + length
  /\ IF Fits(Len(text))
     THEN out' = out \o text /\ written' = written + Len(text) /\ UNCHANGED result
     ELSE result' = "overflow" /\ UNCHANGED <<out, written>>
  /\ UNCHANGED format

\* Mutant: runs over the next directive.
LiteralLengthToEnd(s) == Len(s)

\* The characters from the first one, whatever it is, up to the next '%'.
LiteralLength(s) ==
  LET next == {k \in 2 .. Len(s) : s[k] = "%"}
  IN IF next = {} THEN Len(s)
     ELSE (CHOOSE k \in next : \A j \in next : k <= j) - 1

\* Plain text, or the text behind the first of two '%'.
Literal ==
  LET doubled == Len(Rest) > 1 /\ Rest[1] = "%" /\ Rest[2] = "%"
      s == IF doubled THEN Tail(Rest) ELSE Rest
      length == LiteralLength(s)
  IN /\ Running
     /\ Rest[1] # "%" \/ doubled
     /\ Piece(SubSeq(s, 1, length), length + (IF doubled THEN 1 ELSE 0))
     /\ UNCHANGED taken

Directive(c) == Running /\ Rest[1] = "%" /\ Len(Rest) > 1 /\ Rest[2] = c

Char ==
  /\ Directive("c")
  /\ \E s \in Strings :
       /\ Len(s) = 1
       /\ taken' = Append(taken, s)
       /\ Piece(s, 2)

String ==
  /\ Directive("s")
  /\ \E s \in Strings : taken' = Append(taken, s) /\ Piece(s, 2)

Decimal ==
  /\ Directive("d")
  /\ \E d \in Ints : taken' = Append(taken, d) /\ Piece(itoa(d, 10), 2)

Hexadecimal ==
  /\ Directive("x")
  /\ \E d \in Ints : taken' = Append(taken, d) /\ Piece(itoa(d, 16), 2)

\* Any other directive, the end of the format among them: the rest is printed
\* as it is, from the '%' on.
Unknown ==
  /\ Running /\ Rest[1] = "%"
  /\ Len(Rest) > 1 => Rest[2] \notin {"%", "c", "s", "d", "x"}
  /\ Piece(Rest, Len(Rest))
  /\ UNCHANGED taken

Finish ==
  /\ result = "none" /\ Rest = <<>>
  /\ result' = "count"
  /\ UNCHANGED <<format, at, taken, out, written>>

Returned == result # "none" /\ UNCHANGED printfVars

PrintfInit ==
  /\ format \in Formats
  /\ at = 0 /\ taken = <<>> /\ out = <<>> /\ written = 0 /\ result = "none"

PrintfNext ==
  Literal \/ Char \/ String \/ Decimal \/ Hexadecimal \/ Unknown \/ Finish \/ Returned

PrintfSpec == PrintfInit /\ [][PrintfNext]_printfVars

-----------------------------------------------------------------------------
(* What a format means, character by character, and a number digit by       *)
(* digit.                                                                   *)

Power(base, e) == LET power[k \in 0 .. e] == IF k = 0 THEN 1 ELSE base * power[k - 1] IN power[e]

Numeral(v, base) ==
  LET length == CHOOSE k \in 1 .. v + 1 :
                  v < Power(base, k) /\ \A m \in 1 .. k - 1 : v >= Power(base, m)
  IN [k \in 1 .. length |-> Digit[((v \div Power(base, length - k)) % base) + 1]]

Converted(c, arg) ==
  CASE c \in {"c", "s"} -> arg
    [] c = "x" -> Numeral(IF arg < 0 THEN 2 * INT_MAX + 2 + arg ELSE arg, 16)
    [] c = "d" -> IF arg < 0 THEN <<"-">> \o Numeral(0 - arg, 10) ELSE Numeral(arg, 10)

\* A reader of formats is in plain text, behind a "%" or, once a directive is none,
\* in text that is no more than text.
Opened == [text |-> <<>>, used |-> 0, mode |-> "plain"]

\* What it makes of the next character, when as are the arguments.
Read(r, c, as) ==
  CASE r.mode = "plain" /\ c # "%" -> [r EXCEPT !.text = Append(@, c)]
    [] r.mode = "plain" /\ c = "%" -> [r EXCEPT !.mode = "directive"]
    [] r.mode = "directive" /\ c = "%" -> [r EXCEPT !.text = Append(@, c), !.mode = "plain"]
    [] r.mode = "directive" /\ c \in {"c", "s", "d", "x"} ->
         [text |-> r.text \o Converted(c, as[r.used + 1]), used |-> r.used + 1, mode |-> "plain"]
    [] r.mode = "directive" /\ c \notin {"%", "c", "s", "d", "x"} ->
         [r EXCEPT !.text = @ \o <<"%", c>>, !.mode = "verbatim"]
    [] r.mode = "verbatim" -> [r EXCEPT !.text = Append(@, c)]

\* The first p characters of a format.
Reading(fmt, as, p) ==
  LET reading[k \in 0 .. p] == IF k = 0 THEN Opened ELSE Read(reading[k - 1], fmt[k], as)
  IN reading[p]

\* A "%" at the end stands for itself.
Meaning(r) == IF r.mode = "directive" THEN Append(r.text, "%") ELSE r.text

-----------------------------------------------------------------------------
(* Properties                                                              *)

\* Type invariant: in particular the count stays an int.
PrintfTypeOK ==
  /\ at \in 0 .. Len(format)
  /\ written \in 0 .. INT_MAX
  /\ result \in {"none", "count", "overflow"}

\* printf prints what the format says of the arguments it has read, and
\* returns how much that was; it gives up only before a piece with which the
\* output would be longer than an int can count, and prints nothing of it.
PrintsWhatItSays ==
  LET said == Meaning(Reading(format, taken, at))
  IN IF result = "overflow"
     THEN IsStrictPrefix(out, said) /\ Len(said) > INT_MAX
     ELSE out = said /\ written = Len(out)
=============================================================================
