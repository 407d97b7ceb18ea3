------------------------------ MODULE MCUtils ------------------------------
(* Bounds for checking Utils, and the wide string (WStr, instanced with   *)
(* its variables renamed, as its Init, Next and Spec are those of Utils)  *)
(* checked in the same run: the two share no state, so each behaviour     *)
(* picks one (which) and steps only that one, and the state space is the  *)
(* sum of theirs.  The wide string shares the NUL model value.            *)
EXTENDS Utils

CONSTANTS Chars, CR, LF, Junk, W, HeapLimit, MaxCap, RemoveCounts, NullNormalize

VARIABLES
  which,    \* "utils" or "wstr"
  wsStr,    \* str of WStr
  wsLast    \* last of WStr

WS == INSTANCE WStr WITH str <- wsStr, last <- wsLast

mcVars == <<which, call, wsStr, wsLast>>

\* The utils calls start from an empty wide string that never changes.
UtilsWStrInit ==
  /\ Init /\ WS!Init
  /\ \/ which = "utils" /\ wsStr = WS!Created(0).s
     \/ which = "wstr"

UtilsWStrNext ==
  \/ which = "utils" /\ Next /\ UNCHANGED <<which, wsStr, wsLast>>
  \/ which = "wstr" /\ WS!Next /\ UNCHANGED <<which, call>>

UtilsWStrSpec == UtilsWStrInit /\ [][UtilsWStrNext]_mcVars

\* The utils calls alone, and the JSON round trips alone, for the runs of one property.
UtilsOnlySpec ==
  UtilsWStrInit /\ which = "utils" /\ [][Next /\ UNCHANGED <<which, wsStr, wsLast>>]_mcVars
JsonOnlySpec ==
  UtilsWStrInit /\ which = "utils" /\ [][JsonNext /\ UNCHANGED <<which, wsStr, wsLast>>]_mcVars

(* MemorySafe of WStr: every index, memmove count and pointer sum a wide  *)
(* string call computes in uint32 stays inside the string's memory.       *)
MemorySafe == WS!MemorySafe

(* WellFormed of WStr: every call leaves the text in the first size       *)
(* elements followed by the terminator, inside the buffer it has.         *)
WellFormed == WS!WellFormed

(* TextSemantics of WStr: every wide string call that returns RET_OK      *)
(* leaves the text it documents, and every failing one the text as it was. *)
TextSemantics == WS!TextSemantics

\* wstr_remove with nr 1 and 2: the counts callers use, clamped at the end.
MCWStrRemoveCounts == {1, 2}

\* Room for a copy of MaxCopy bytes from 0 .. 3 to CopyDst .. CopyDst + 3,
\* with bytes after it that must stay untouched (memset fits below).
MCMemBytes == CopyDst + MaxCopy + 8
\* tk_itoa's inputs: zero, one and two digits and a third, both signs.
MCIntValues == {0, 5, -5, 10, -10, 99, -99, 100}
\* Entries of levels strings: three ranges with gaps, and one sscanf cannot read.
MCLevelEntries ==
  {[ok |-> TRUE, lo |-> 0, hi |-> 1], [ok |-> TRUE, lo |-> 2, hi |-> 3],
   [ok |-> TRUE, lo |-> 5, hi |-> 9], [ok |-> FALSE, lo |-> 0, hi |-> 0]}
\* Ten and eleven digits, signed and after a space.
MCLongNums ==
  {<<"1", "1", "1", "1", "1", "1", "1", "1", "1", "1">>,
   <<"1", "7", "1", "1", "1", "1", "1", "1", "1", "1", "1">>,
   <<"-", "1", "1", "1", "1", "1", "1", "1", "1", "1", "7">>,
   <<" ", "1", "7", "1", "1", "1", "1", "1", "1", "1", "1">>}
\* Formats of tk_sscanf_simple: plain conversions and literals, a width,
\* the l modifier at the end, %f, %p and %s, and a letter it does not know.
MCFormats ==
  {<<"%", "d">>, <<"%", "d", ",", "%", "d">>, <<"%", "x", "-", "%", "u">>,
   <<"%", "d", "-", "%", "d">>, <<"%", "2", "d", ",", "%", "d">>, <<"%", "2", "s">>,
   <<"%", "l", "u">>, <<"%", "l", "d">>, <<"%", "l">>, <<"%", "f">>, <<"%", "p">>,
   <<"%", "c", "1">>}
\* Layouters: hbox in each alignment, vbox, grids of column and row counts,
\* and grids of a column width or a row height, flexible or not, with
\* margins and spacings that leave a remainder to centre.
MCLayoutParams ==
  {<<<<"r", 1>>, <<"c", 0>>, <<"m", m>>, <<"s", s>>, <<"a", a>>>> :
     m \in {0, 2}, s \in {0, 1}, a \in {"left", "center", "right"}}
  \cup {<<<<"c", 1>>, <<"r", 0>>, <<"m", m>>, <<"s", s>>>> : m \in {0, 2}, s \in {0, 1}}
  \cup {<<<<"c", c>>, <<"r", r>>, <<"x", x>>, <<"y", y>>, <<"s", s>>>> :
          c \in {2, 3}, r \in {1, 2}, x \in {0, 3}, y \in {0, 3}, s \in {0, 1}}
  \cup {<<<<"w", iw>>, <<"r", 2>>, <<"m", m>>, <<"s", s>>, <<"f", fl>>>> :
          iw \in {4, 6}, m \in {0, 4}, s \in {0, 1}, fl \in BOOLEAN}
  \cup {<<<<"c", 2>>, <<"h", ih>>, <<"m", m>>, <<"s", s>>, <<"f", fl>>>> :
          ih \in {4, 6}, m \in {0, 4}, s \in {0, 1}, fl \in BOOLEAN}
\* Simple values: an int32 of both signs, INT_MAX (reread as an int64), both
\* bools, and strings holding the two characters the writer escapes.
MCJsonScalars ==
  {[t |-> "int", n |-> -1], [t |-> "int", n |-> 2147483647], [t |-> "bool", b |-> TRUE],
   [t |-> "bool", b |-> FALSE], [t |-> "str", s |-> <<"\"">>], [t |-> "str", s |-> <<"\\", "a">>]}
\* The simple values strictly inside the int32 range, for the run of the names alone.
MCJsonScalarsInside == MCJsonScalars \ {[t |-> "int", n |-> 2147483647]}
\* Member names: a letter, a backslash and a quote, each escaped by the writer.
MCJsonNames == {<<"a">>, <<"\\">>, <<"\"">>}
\* No comment, a block comment, and line comments ended by "\r\n" and "\n".
MCJsonComments ==
  {<<>>, <<"/", "*", "*", "/">>, <<"/", "/", "\r", "\n">>, <<"/", "/", " ", "\n">>}
=============================================================================
