------------------------------ MODULE Sscanf -------------------------------
(***************************************************************************)
(* tk_vsscanf_simple of src/src/tkc/utils.c, the scanf of builds without  *)
(* vsscanf, with the str_skip_ helpers.  Input and format are strings as   *)
(* in StrUtils, walked by 0-based indexes i and f.  A conversion stores a  *)
(* record of its letter and what it read: the long of tk_strtol (the C    *)
(* cast to the argument's type is left to the reader of conv), the text   *)
(* of a %s, or for %f the characters str_skip_float passes (tk_atof is    *)
(* not modelled).  overread is set when the loop's test reads a character *)
(* past the terminator of either string.                                   *)
(***************************************************************************)
EXTENDS Integers, Sequences, StrEdit

DecSet == {DecDigits[k] : k \in 1 .. 10}
XDigitSet == DecSet \cup {HexLower[k] : k \in 1 .. 6} \cup {HexUpper[k] : k \in 1 .. 6}
\* isspace over the characters the model's strings use.
SpaceSet == {" ", "\t"}

\* The text of t from index i on.
From(t, i) == SubSeq(t, i + 1, Len(t))

\* The optional sign that the three str_skip_ helpers pass first.
SkipSign(t, i) == IF Char(t, i) \in {"+", "-"} THEN i + 1 ELSE i

\* Fault variant of StrSkipInt: the sign not passed.
StrSkipIntNoSign(t, i) == SkipChars(t, DecSet, i)

StrSkipInt(t, i) == SkipChars(t, DecSet, SkipSign(t, i))
StrSkipXint(t, i) == SkipChars(t, XDigitSet, SkipSign(t, i))

\* str_skip_float: sign, digits, then one of '.', 'e', 'E', a sign, digits.
StrSkipFloat(t, i) ==
  LET j == StrSkipInt(t, i)
  IN IF Char(t, j) \in {".", "e", "E"} THEN StrSkipInt(t, j + 1) ELSE j

Stored(conv, n) == [conv |-> conv, n |-> n]

\* One assignment more, with its value.
Assign(r, v) == [r EXCEPT !.n = @ + 1, !.vals = Append(@, v)]

(* A conversion with a width, %<n>d, %<n>x, %<n>u or %<n>s: tk_strncpy of *)
(* at most n characters to temp, the conversion of temp, format past the   *)
(* letter (or past what is not one) and str += n, even past the end.       *)
WidthConv(t, fmt, r, i, f) ==
  LET n == StrtolLoop(fmt, f, 10, 0, 0).n
      fe == SkipChars(fmt, DecSet, f)
      temp == SubSeq(t, i + 1, IF i + n < Len(t) THEN i + n ELSE Len(t))
      c == Char(fmt, fe)
      r1 == CASE c = "d" -> Assign(r, Stored("d", TkStrtol(temp, 10).value))
              [] c = "x" -> Assign(r, Stored("x", TkStrtol(temp, 16).value))
              [] c = "u" -> Assign(r, Stored("u", TkStrtol(temp, 10).value))
              [] c = "s" -> Assign(r, [conv |-> "s", n |-> temp])
              [] OTHER -> r
  IN [r1 EXCEPT !.f = fe + 1, !.i = i + n]

(* A conversion without a width at format index f, the input at i after   *)
(* the spaces.  %lu counts two assignments; an unknown letter leaves       *)
(* format on it, to be matched as a literal.                               *)
PlainConv(t, fmt, r, i, f) ==
  LET c == Char(fmt, f)
      c2 == Char(fmt, f + 1)
      px == IF Char(t, i) = "0" /\ Char(t, i + 1) \in {"x", "X"} THEN i + 2 ELSE i
  IN CASE c \in {"u", "d"} ->
            [Assign(r, Stored(c, TkStrtol(From(t, i), 10).value))
               EXCEPT !.i = StrSkipInt(t, i), !.f = f + 1]
       [] c = "f" ->
            [Assign(r, [conv |-> "f", n |-> SubSeq(t, i + 1, StrSkipFloat(t, i))])
               EXCEPT !.i = StrSkipFloat(t, i), !.f = f + 1]
       [] c = "x" ->
            [Assign(r, Stored("x", TkStrtol(From(t, i), 16).value))
               EXCEPT !.i = StrSkipXint(t, i), !.f = f + 1]
       [] c = "p" ->
            [Assign(r, Stored("p", TkStrtol(From(t, px), 16).value))
               EXCEPT !.i = StrSkipXint(t, px), !.f = f + 1]
       [] c = "l" /\ c2 = "d" ->
            [Assign(r, Stored("ld", TkStrtol(From(t, i), 10).value))
               EXCEPT !.i = StrSkipInt(t, i), !.f = f + 2]
       [] c = "l" /\ c2 = "u" ->
            [Assign(r, Stored("lu", TkStrtol(From(t, i), 10).value))
               EXCEPT !.n = @ + 1, !.i = StrSkipInt(t, i), !.f = f + 2]
       [] c = "l" /\ c2 = "f" ->
            [Assign(r, [conv |-> "lf", n |-> SubSeq(t, i + 1, StrSkipFloat(t, i))])
               EXCEPT !.i = StrSkipFloat(t, i), !.f = f + 2]
       [] c = "l" -> [r EXCEPT !.i = i, !.f = f + 2]
       [] OTHER -> [r EXCEPT !.i = i, !.f = f]

\* One turn of the loop: a literal that matches or stops the scan, or a '%'.
Step(t, fmt, r) ==
  LET c == Char(fmt, r.f)
      i == SkipChars(t, SpaceSet, r.i)
  IN IF c # "%"
     THEN IF c # Char(t, r.i) THEN [r EXCEPT !.stop = TRUE]
          ELSE [r EXCEPT !.f = @ + 1, !.i = @ + 1]
     ELSE IF Char(fmt, r.f + 1) \in DecSet THEN WidthConv(t, fmt, r, i, r.f + 1)
     ELSE PlainConv(t, fmt, r, i, r.f + 1)

(* The loop tests the format character first and then the input one, so *)
(* an input that ran out is read past its end only while format goes on. *)
RECURSIVE ScanLoop(_, _, _)
ScanLoop(t, fmt, r) ==
  IF r.stop THEN r
  ELSE IF r.f > Len(fmt) THEN [r EXCEPT !.overread = TRUE]
  ELSE IF Char(fmt, r.f) = NUL THEN r
  ELSE IF r.i > Len(t) THEN [r EXCEPT !.overread = TRUE]
  ELSE IF Char(t, r.i) = NUL THEN r
  ELSE ScanLoop(t, fmt, Step(t, fmt, r))

TkVsscanfSimple(t, fmt) ==
  ScanLoop(t, fmt, [i |-> 0, f |-> 0, n |-> 0, vals |-> <<>>, stop |-> FALSE, overread |-> FALSE])
=============================================================================
