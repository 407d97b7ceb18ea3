------------------------------ MODULE StrUtils ------------------------------
(***************************************************************************)
(* String routines of src/src/tkc/utils.c as pure operators.  A C string  *)
(* is a sequence of characters without its terminator; reading at its     *)
(* length yields NUL, as the terminator does.  Characters are model        *)
(* values; STAR and QMARK are '*' and '?'; NULL is the null pointer.       *)
(***************************************************************************)
EXTENDS Integers, Sequences

CONSTANTS NUL, STAR, QMARK, NULL

\* str[i] of a NUL-terminated string.
Char(t, i) == IF i < Len(t) THEN t[i + 1] ELSE NUL

-----------------------------------------------------------------------------
\* The inner while (*p_str) loop after a '*': skip to the next c.
RECURSIVE SkipTo(_, _, _)
SkipTo(s, ps, c) == IF Char(s, ps) # NUL /\ Char(s, ps) # c THEN SkipTo(s, ps + 1, c) ELSE ps

\* Fault variant of WildLoop: '?' compared as an ordinary character.
RECURSIVE WildLoopLiteralQ(_, _, _, _)
WildLoopLiteralQ(p, s, pp, ps) ==
  LET c == Char(p, pp)
  IN IF c = NUL \/ Char(s, ps) = NUL THEN Char(p, pp) = STAR \/ Char(s, ps) = c
     ELSE IF c = STAR
          THEN Char(p, pp + 1) = NUL
               \/ WildLoopLiteralQ(p, s, pp + 1, SkipTo(s, ps, Char(p, pp + 1)))
     ELSE c = Char(s, ps) /\ WildLoopLiteralQ(p, s, pp + 1, ps + 1)

(* tk_wild_card_match's loop while both strings have characters left.     *)
(* '*' followed by the end breaks out (and the result is then TRUE);      *)
(* otherwise the string skips to the first occurrence of the character    *)
(* after the '*', and the pattern moves past the '*'.  '?' takes any one  *)
(* character, any other must be equal.  After the loop the result is      *)
(* *p_pattern == '*' || *p_str == *p_pattern.                              *)
RECURSIVE WildLoop(_, _, _, _)
WildLoop(p, s, pp, ps) ==
  LET c == Char(p, pp)
  IN IF c = NUL \/ Char(s, ps) = NUL THEN Char(p, pp) = STAR \/ Char(s, ps) = c
     ELSE IF c = STAR
          THEN Char(p, pp + 1) = NUL
               \/ WildLoop(p, s, pp + 1, SkipTo(s, ps, Char(p, pp + 1)))
     ELSE IF c = QMARK THEN WildLoop(p, s, pp + 1, ps + 1)
     ELSE c = Char(s, ps) /\ WildLoop(p, s, pp + 1, ps + 1)

TkWildCardMatch(pattern, str) == WildLoop(pattern, str, 0, 0)

-----------------------------------------------------------------------------
(* tk_strrstr: from the last character down, the first position holding   *)
(* substr's first character where strncmp(p, substr, len) is 0.            *)
RECURSIVE StrrstrLoop(_, _, _)
StrrstrLoop(str, sub, p) ==
  IF p < 0 THEN NULL
  ELSE IF Char(str, p) = Char(sub, 0)
          /\ \A k \in 0 .. Len(sub) - 1 : Char(str, p + k) = Char(sub, k)
       THEN p
       ELSE StrrstrLoop(str, sub, p - 1)

\* Fault variant of TkStrrstr: the scan starts one before the last character.
StrrstrFromSecondLast(str, sub) == StrrstrLoop(str, sub, Len(str) - 2)

TkStrrstr(str, sub) == StrrstrLoop(str, sub, Len(str) - 1)

-----------------------------------------------------------------------------
(* tk_itoa_simple(str, len, n) for the int n of tk_itoa, widened to       *)
(* int64: "0" for zero; otherwise the sign, the digits counted by dividing *)
(* and then written from the right.  NULL when len <= 2 or the text and    *)
(* its terminator need len or more characters.  Digits are the numbers     *)
(* 0..9 and "-" the sign; the result is the buffer's first need_len       *)
(* characters, the terminator included as NUL.                             *)
RECURSIVE DigitCount(_)
DigitCount(v) == IF v > 0 THEN 1 + DigitCount(v \div 10) ELSE 0

RECURSIVE WriteDigits(_, _, _)
WriteDigits(buf, i, n) ==
  IF n > 0 THEN WriteDigits([buf EXCEPT ![i + 1] = n % 10], i - 1, n \div 10) ELSE buf

TkItoa(len, n) ==
  IF len <= 2 THEN NULL
  ELSE IF n = 0 THEN <<0, NUL>>
  ELSE LET m == IF n < 0 THEN -n ELSE n
           need_len == (IF n < 0 THEN 1 ELSE 0) + DigitCount(m) + 1
           blank == [k \in 1 .. need_len |-> IF k = 1 /\ n < 0 THEN "-" ELSE NUL]
       IN IF len > need_len THEN WriteDigits(blank, need_len - 2, m) ELSE NULL
=============================================================================
