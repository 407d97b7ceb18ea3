------------------------------ MODULE StrEdit ------------------------------
(***************************************************************************)
(* The string editing and parsing routines of src/src/tkc/utils.c.  A     *)
(* destination buffer is a record of its cells (its size is their number)  *)
(* and a fault flag set by a store outside it.  Strings and characters are *)
(* as in StrUtils; the digits of tk_strtol are the one-character strings   *)
(* "0" .. "9", "a" .. "f" and "A" .. "F".                                  *)
(***************************************************************************)
EXTENDS Integers, Sequences, StrUtils

\* Store the characters of s into the buffer from index i on.
Stores(b, i, s) ==
  IF i >= 0 /\ i + Len(s) <= Len(b.cells)
  THEN [b EXCEPT !.cells = [k \in DOMAIN b.cells |->
                              IF i < k /\ k <= i + Len(s) THEN s[k - i] ELSE b.cells[k]]]
  ELSE [b EXCEPT !.fault = TRUE]

\* The C string in a buffer: its cells before the first NUL.
RECURSIVE TextFrom(_, _)
TextFrom(cells, k) ==
  IF k > Len(cells) \/ cells[k] = NUL THEN <<>> ELSE <<cells[k]>> \o TextFrom(cells, k + 1)
TextOf(b) == TextFrom(b.cells, 1)

-----------------------------------------------------------------------------
(* tk_skip_chars, and the first loop of tk_str_trim_left: move past the    *)
(* characters of cs; strchr never finds the terminator because *p is       *)
(* tested first.                                                            *)
RECURSIVE SkipChars(_, _, _)
SkipChars(t, cs, p) == IF Char(t, p) # NUL /\ Char(t, p) \in cs THEN SkipChars(t, cs, p + 1) ELSE p

\* tk_str_trim_left: memmove of the rest, terminator included, to the start.
TkStrTrimLeft(t, cs) == [text |-> SubSeq(t, SkipChars(t, cs, 0) + 1, Len(t)), ret |-> "RET_OK"]

\* tk_str_trim_right's loop: p moves down while it is in the string and in cs.
RECURSIVE TrimRightLoop(_, _, _)
TrimRightLoop(t, cs, p) == IF p >= 0 /\ t[p + 1] \in cs THEN TrimRightLoop(t, cs, p - 1) ELSE p

\* Fault variant of TkStrTrimRight: the terminator stored at p.
TkStrTrimRightAtP(t, cs) ==
  IF Len(t) = 0 THEN [text |-> t, ret |-> "RET_BAD_PARAMS"]
  ELSE [text |-> SubSeq(t, 1, TrimRightLoop(t, cs, Len(t) - 1)), ret |-> "RET_OK"]

(* tk_str_trim_right: p = str + strlen(str) - 1 is before str for the      *)
(* empty string, which the p >= str check refuses; otherwise the           *)
(* terminator goes after the last character kept.                          *)
TkStrTrimRight(t, cs) ==
  IF Len(t) = 0 THEN [text |-> t, ret |-> "RET_BAD_PARAMS"]
  ELSE [text |-> SubSeq(t, 1, TrimRightLoop(t, cs, Len(t) - 1) + 1), ret |-> "RET_OK"]

-----------------------------------------------------------------------------
\* Fault variant of TkStrAppend: refused only when max_len is below the two lengths.
TkStrAppendNoRoomForNul(b, max_len, s) ==
  LET org_len == Len(TextOf(b))
  IN IF max_len < Len(s) + org_len THEN [b |-> b, ret |-> "RET_FAIL"]
     ELSE [b |-> Stores(b, org_len, s \o <<NUL>>), ret |-> "RET_OK"]

(* tk_str_append(str, max_len, s): refused with RET_FAIL unless max_len    *)
(* exceeds the two lengths together; then s and a terminator are stored    *)
(* after the text.                                                          *)
TkStrAppend(b, max_len, s) ==
  LET org_len == Len(TextOf(b))
  IN IF ~(max_len > Len(s) + org_len) THEN [b |-> b, ret |-> "RET_FAIL"]
     ELSE [b |-> Stores(b, org_len, s \o <<NUL>>), ret |-> "RET_OK"]

(* tk_strncpy(dst, src, len) for dst != src: strncpy copies len            *)
(* characters, padding with NUL after the end of src, then dst[len] = 0.  *)
TkStrncpy(b, src, len) == Stores(b, 0, [k \in 1 .. len |-> Char(src, k - 1)] \o <<NUL>>)

\* Fault variant of TkStrncpyS: len = tk_min(dst_len, src_len).
TkStrncpySNoRoom(b, dst_len, src, src_len) ==
  IF dst_len = 0 THEN b
  ELSE TkStrncpy(b, src, IF dst_len < src_len THEN dst_len ELSE src_len)

\* tk_strncpy_s: at most dst_len - 1 characters, so the terminator fits.
TkStrncpyS(b, dst_len, src, src_len) ==
  IF dst_len = 0 THEN b
  ELSE TkStrncpy(b, src, IF dst_len - 1 < src_len THEN dst_len - 1 ELSE src_len)

-----------------------------------------------------------------------------
(* tk_str_start_with: strncmp over tk_strlen(prefix) characters, which     *)
(* stops unequal at the end of a shorter str.                              *)
TkStrStartWith(s, prefix) == \A k \in 0 .. Len(prefix) - 1 : Char(s, k) = Char(prefix, k)

\* tk_str_end_with: the last len_appendix characters compared.
TkStrEndWith(s, app) ==
  IF Len(s) < Len(app) THEN FALSE
  ELSE \A k \in 0 .. Len(app) - 1 : Char(s, Len(s) - Len(app) + k) = Char(app, k)

-----------------------------------------------------------------------------
(* tk_levelize(levels, value).  levels is given as its ';'-separated       *)
(* entries; an entry that tk_sscanf reads as "%d-%d" has ok and its two   *)
(* numbers lo and hi.  A parsed entry above value stops the scan; one      *)
(* holding it is the result; every ';' passed counts one level.            *)
RECURSIVE LevelizeBreakless(_, _, _)
LevelizeBreakless(levels, value, level) ==
  LET e == levels[level + 1]
  IN IF e.ok /\ value >= e.lo /\ value <= e.hi THEN level
     ELSE IF level + 1 < Len(levels) THEN LevelizeBreakless(levels, value, level + 1) ELSE level

RECURSIVE LevelizeLoop(_, _, _)
LevelizeLoop(levels, value, level) ==
  LET e == levels[level + 1]
  IN IF e.ok /\ value < e.lo THEN level
     ELSE IF e.ok /\ value >= e.lo /\ value <= e.hi THEN level
     ELSE IF level + 1 < Len(levels) THEN LevelizeLoop(levels, value, level + 1) ELSE level

\* Fault variant of TkLevelize: no break on value < start.
TkLevelizeBreakless(levels, value) ==
  IF Len(levels) = 0 THEN 0 ELSE LevelizeBreakless(levels, value, 0)

TkLevelize(levels, value) == IF Len(levels) = 0 THEN 0 ELSE LevelizeLoop(levels, value, 0)

-----------------------------------------------------------------------------
(* tk_strtol of the HAS_NO_LIBC build.  DigitOf is the range tests of      *)
(* tk_strtol_internal: '0'..'9' (only '0'..'7' in base 8), and 'a'..'f'   *)
(* and 'A'..'F' in base 16; -1 stops the scan.                             *)
DecDigits == <<"0", "1", "2", "3", "4", "5", "6", "7", "8", "9">>
HexLower == <<"a", "b", "c", "d", "e", "f">>
HexUpper == <<"A", "B", "C", "D", "E", "F">>

DigitOf(c, base) ==
  CASE \E k \in 1 .. 10 : DecDigits[k] = c ->
         LET v == CHOOSE k \in 0 .. 9 : DecDigits[k + 1] = c
         IN IF base = 8 /\ v > 7 THEN -1 ELSE v
    [] base = 16 /\ \E k \in 1 .. 6 : HexLower[k] = c -> 9 + CHOOSE k \in 1 .. 6 : HexLower[k] = c
    [] base = 16 /\ \E k \in 1 .. 6 : HexUpper[k] = c -> 9 + CHOOSE k \in 1 .. 6 : HexUpper[k] = c
    [] OTHER -> -1

\* Fault variant of StrtolLoop: at most nine digits read.
RECURSIVE StrtolLoopNine(_, _, _, _, _)
StrtolLoopNine(t, from, base, i, n) ==
  IF i < 9 /\ Char(t, from + i) # NUL /\ DigitOf(Char(t, from + i), base) >= 0
  THEN StrtolLoopNine(t, from, base, i + 1, n * base + DigitOf(Char(t, from + i), base))
  ELSE [n |-> n, end |-> from + i]

(* The loops of tk_strtol_internal on str + from: at most ten digits,      *)
(* n = n * base + digit; *end = str + i.                                   *)
RECURSIVE StrtolLoop(_, _, _, _, _)
StrtolLoop(t, from, base, i, n) ==
  IF i < 10 /\ Char(t, from + i) # NUL /\ DigitOf(Char(t, from + i), base) >= 0
  THEN StrtolLoop(t, from, base, i + 1, n * base + DigitOf(Char(t, from + i), base))
  ELSE [n |-> n, end |-> from + i]

(* tk_strtol(str, &end, base) for base 8, 10 or 16: spaces and tabs are    *)
(* skipped, then an optional sign; the result is negated for '-'.         *)
TkStrtol(t, base) ==
  LET ws == SkipChars(t, {" ", "\t"}, 0)
      signed == Char(t, ws) \in {"+", "-"}
      r == StrtolLoop(t, IF signed THEN ws + 1 ELSE ws, base, 0, 0)
  IN [value |-> IF signed /\ Char(t, ws) = "-" THEN -r.n ELSE r.n, end |-> r.end]
=============================================================================
