------------------------------- MODULE Format -------------------------------
(***************************************************************************)
(* The conversions of numbers to text: printf (src/kernel/lib/io.c),       *)
(* the time stamp of klog (src/kernel/core/log.c) and the fixed-width      *)
(* hexadecimal numbers of mmp (src/kernel/mm/lmm.c).                       *)
(*                                                                         *)
(* A text is a sequence of characters; a piece of wording is one           *)
(* character, "~".  The case of hexadecimal digits, and printf's %f and    *)
(* its buffer of 1024 characters, are left out.                            *)
(***************************************************************************)
EXTENDS Integers, SequencesExt, TLC

Digits ==
  <<"0", "1", "2", "3", "4", "5", "6", "7", "8", "9", "a", "b", "c", "d", "e", "f">>

Digit(d) == Digits[d + 1]

\* Digits are taken off a number until it is 0, and written in reverse.
Numeral(n, base) ==
  LET d[m \in Nat] ==
        IF m = 0 THEN <<>> ELSE Append(d[m \div base], Digit(m % base))
  IN IF n = 0 THEN <<"0">> ELSE d[n]

\* %d: -(num + 1) + 1 is taken as unsigned, so that INT_MIN has a value.
Decimal(num) == IF num < 0 THEN <<"-">> \o Numeral(-(num + 1) + 1, 10) ELSE Numeral(num, 10)

\* %s: a backslash and the character behind it stand for one character, if
\* they are a known pair; the last character stands for itself.
Unescape(str) ==
  LET pairs == [n |-> "newline", t |-> "tab"] @@ ("\\" :> "\\")
      Take(s, k) ==
        IF s.skip THEN [s EXCEPT !.skip = FALSE]
        ELSE IF str[k] # "\\" \/ k = Len(str) THEN [s EXCEPT !.out = Append(@, str[k])]
        ELSE [skip |-> TRUE,
              out |-> s.out \o (IF str[k + 1] \in DOMAIN pairs THEN <<pairs[str[k + 1]]>>
                                ELSE <<"\\", str[k + 1]>>)]
  IN FoldLeftDomain(Take, [skip |-> FALSE, out |-> <<>>], str).out

\* One character of the format: behind a % it tells how to convert the next
\* argument, or is copied.
Conversion(s, c) ==
  CASE ~ s.percent /\ c = "%" -> [s EXCEPT !.percent = TRUE]
    [] ~ s.percent /\ c # "%" -> [s EXCEPT !.out = Append(@, c)]
    [] s.percent /\ c = "d" ->
         [out |-> s.out \o Decimal(Head(s.args)), args |-> Tail(s.args), percent |-> FALSE]
    [] s.percent /\ c = "s" ->
         [out |-> s.out \o Unescape(Head(s.args)), args |-> Tail(s.args), percent |-> FALSE]
    [] s.percent /\ c = "c" ->
         [out |-> Append(s.out, Head(s.args)), args |-> Tail(s.args), percent |-> FALSE]
    [] s.percent /\ c = "x" ->
         [out |-> s.out \o Numeral(Head(s.args), 16), args |-> Tail(s.args), percent |-> FALSE]
    [] s.percent /\ c = "%" -> [s EXCEPT !.out = Append(@, "%"), !.percent = FALSE]
    [] OTHER -> [s EXCEPT !.out = @ \o <<"%", c>>, !.percent = FALSE]

printf(format, args) ==
  FoldLeft(Conversion, [out |-> <<>>, args |-> args, percent |-> FALSE], format).out

\* The low n hexadecimal digits of a word, the first one first.
FixedHex(word, n) == [k \in 1 .. n |-> Digit((word \div 16 ^ (n - k)) % 16)]

\* Mutant of ts: the milliseconds are written without leading zeros.
ts_NoZeros(ticks) ==
  <<"~">> \o Numeral(ticks \div 1000, 10) \o <<".">> \o Numeral(ticks % 1000, 10) \o <<"~">>

\* Seconds, a point and three digits of milliseconds.
ts(ticks) ==
  <<"~">> \o Numeral(ticks \div 1000, 10) \o <<".">>
    \o [k \in 1 .. 3 |-> Digit(((ticks % 1000) \div 10 ^ (3 - k)) % 10)] \o <<"~">>

\* A line of the log: the time and the text.
klog(ticks, text) == ts(ticks) \o text

-----------------------------------------------------------------------------
(* How a reader takes a text: its maximal runs of digits, as numbers. *)

Value(c) == SelectInSeq(Digits, LAMBDA d : d = c) - 1

Fields(text) ==
  LET Take(s, c) ==
        IF Value(c) < 0 THEN [s EXCEPT !.open = FALSE]
        ELSE IF s.open THEN [s EXCEPT !.runs[Len(s.runs)] = Append(@, Value(c))]
        ELSE [runs |-> Append(s.runs, <<Value(c)>>), open |-> TRUE]
  IN FoldLeft(Take, [runs |-> <<>>, open |-> FALSE], text).runs

\* The number that a run of digits stands for.
Number(run, base) == FoldLeft(LAMBDA n, d : n * base + d, 0, run)

\* printf's %d is read back as the number that was given, for all numbers of
\* eight bits, the least one included.
DecimalReadsBack ==
  \A n \in -128 .. 127 :
    LET text == printf(<<"%", "d">>, <<n>>)
        abs == Number(Fields(text)[1], 10)
    IN n = IF text[1] = "-" THEN -abs ELSE abs

\* A text whose special characters were written as pairs comes out of %s as it
\* was, between what is before and behind it.
StringReadsBack ==
  LET Pair(c) == CASE c = "newline" -> <<"\\", "n">>
                   [] c = "tab"     -> <<"\\", "t">>
                   [] c = "\\"      -> <<"\\", "\\">>
                   [] OTHER         -> <<c>>
      Escaped(text) == FoldLeft(LAMBDA s, c : s \o Pair(c), <<>>, text)
  IN \A text \in BoundedSeq({"newline", "tab", "\\", "n", "~"}, 4) :
       printf(<<"%", "c", "%", "s", "%", "%">>, <<"~", Escaped(text)>>) = <<"~">> \o text \o <<"%">>
=============================================================================
