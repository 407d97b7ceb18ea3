-------------------------------- MODULE WStr --------------------------------
(***************************************************************************)
(* The wide-character string buffer of src/src/tkc/wstr.c.  A wstr_t owns *)
(* (or, after wstr_attach, borrows) a buffer of wchar_t: the text is the  *)
(* first size elements and element size holds the terminating 0.  An      *)
(* extendable buffer grown to capacity c has c + 1 elements; an attached   *)
(* buffer has exactly the capacity given to wstr_attach.                   *)
(*                                                                         *)
(* uint32_t arithmetic is kept modulo 2^W with W a constant: the model's  *)
(* words are W bits wide, so the wrap-around the code meets at 2^32 is met *)
(* at 2^W with buffers small enough for TLC.  Every memory access is      *)
(* checked against the buffer: one outside it (or through a NULL buffer)  *)
(* sets fault, after which the behaviour of the program is undefined and  *)
(* the model stops.                                                        *)
(***************************************************************************)
EXTENDS Naturals, Sequences

CONSTANTS
  Chars,        \* the wchar_t values a text may hold (model values)
  CR, LF,       \* '\r' and '\n', two of them
  NUL,          \* the wchar_t 0
  Junk,         \* the unspecified content of memory realloc adds
  W,            \* the width of a uint32_t in the model
  HeapLimit,    \* the largest element count TKMEM_REALLOCT grants
  MaxCap,       \* the largest capacity passed to wstr_init, _attach, _extend
  RemoveCounts, \* the values of nr passed to wstr_remove
  NullNormalize \* wstr_normalize_newline may be called before any buffer exists

ASSUME {CR, LF} \subseteq Chars /\ NullNormalize \in BOOLEAN
ASSUME NUL \notin Chars /\ Junk \notin Chars \cup {NUL}
ASSUME W \in Nat /\ HeapLimit \in Nat /\ MaxCap \in Nat
ASSUME RemoveCounts \subseteq 1 .. 2^W - 1

Modulus == 2^W
U(x) == x % Modulus                \* a uint32_t result

\* The texts passed to set, append and insert: up to two characters.
Texts == {<<>>} \cup [1 .. 1 -> Chars] \cup [1 .. 2 -> Chars]

VARIABLES
  str,    \* [buf, size, capacity, extendable, fault]; buf = <<>> is NULL
  last    \* the last call and its arguments, for the properties

vars == <<str, last>>

-----------------------------------------------------------------------------
(* Memory accesses.  Element i of the buffer is buf[i + 1].               *)
Get(s, i) == IF i < Len(s.buf) THEN s.buf[i + 1] ELSE Junk

Put(s, i, c) ==
  IF i < Len(s.buf) THEN [s EXCEPT !.buf[i + 1] = c] ELSE [s EXCEPT !.fault = TRUE]

\* memmove(p + dst, p + src, n elements).
MemMove(s, dst, src, n) ==
  IF dst + n <= Len(s.buf) /\ src + n <= Len(s.buf)
  THEN [s EXCEPT !.buf = [k \in 1 .. Len(s.buf) |->
                            IF dst < k /\ k <= dst + n THEN s.buf[k - dst + src]
                            ELSE s.buf[k]]]
  ELSE [s EXCEPT !.fault = TRUE]

\* memcpy(p + dst, text, n elements).
MemCpy(s, dst, t, n) ==
  IF dst + n <= Len(s.buf)
  THEN [s EXCEPT !.buf = [k \in 1 .. Len(s.buf) |->
                            IF dst < k /\ k <= dst + n THEN t[k - dst] ELSE s.buf[k]]]
  ELSE [s EXCEPT !.fault = TRUE]

(* The backward copy loop of wstr_insert: p[d] = p[s] for move_nr        *)
(* elements, d and s counting down.                                       *)
RECURSIVE CopyDown(_, _, _, _)
CopyDown(s, d, from, n) ==
  IF n = 0 THEN s ELSE CopyDown(Put(s, d, Get(s, from)), d - 1, from - 1, n - 1)

\* str->str[str->size] = 0.
Terminate(s) == Put(s, s.size, NUL)

-----------------------------------------------------------------------------
(* wstr_extend: a larger capacity reallocates capacity + 1 elements       *)
(* (uint32 arithmetic), which fails beyond what the heap grants, and      *)
(* rewrites the terminator; an attached buffer never grows.               *)
Extend(s, capacity) ==
  LET n == U(capacity + 1)
  IN IF capacity <= s.capacity THEN [s |-> s, ok |-> TRUE]
     ELSE IF ~s.extendable THEN [s |-> s, ok |-> FALSE]
     ELSE IF capacity = 0 THEN [s |-> s, ok |-> TRUE]
     ELSE IF n = 0 \/ n > HeapLimit THEN [s |-> s, ok |-> FALSE]
     ELSE LET grown == [s EXCEPT !.buf = @ \o [k \in 1 .. n - Len(s.buf) |-> Junk]]
          IN [s |-> [Put(grown, s.size, NUL) EXCEPT !.capacity = capacity], ok |-> TRUE]

\* Fault variant of WstrRemove: the clamp of nr dropped.
RemoveNoClamp(s, offset, nr) ==
  LET s1 == MemMove(s, offset, offset + nr, U(s.size - offset - nr))
  IN Terminate([s1 EXCEPT !.size = U(s.size - nr)])

(* wstr_remove once its guard (offset < size, nr > 0) holds: nr is cut to *)
(* the end of the text when offset + nr, a uint32 sum, exceeds size; the  *)
(* tail is moved down and the text shortened.                              *)
WstrRemove(s, offset, nr) ==
  LET n == IF U(offset + nr) > s.size THEN s.size - offset ELSE nr
      s1 == MemMove(s, offset, offset + n, U(s.size - offset - n))
  IN IF n > 0 THEN Terminate([s1 EXCEPT !.size = U(s.size - n)]) ELSE s

\* A forward copy loop: p[d] = p[s] with d and s counting up.
RECURSIVE CopyUp(_, _, _, _)
CopyUp(s, d, from, n) ==
  IF n = 0 THEN s ELSE CopyUp(Put(s, d, Get(s, from)), d + 1, from + 1, n - 1)

\* Fault variant of WstrInsert: the tail moved up front to back.
InsertCopyUp(s, offset, t, nr) ==
  LET moved == IF s.size > offset THEN CopyUp(s, offset + nr, offset, s.size - offset)
               ELSE s
  IN Terminate([MemCpy(moved, offset, t, nr) EXCEPT !.size = U(s.size + nr)])

(* wstr_insert once extended: the tail moved up by nr, text copied in.    *)
WstrInsert(s, offset, t, nr) ==
  LET moved == IF s.size > offset
               THEN CopyDown(s, U(s.size + nr - 1), s.size - 1, s.size - offset)
               ELSE s
      s1 == MemCpy(moved, offset, t, nr)
  IN Terminate([s1 EXCEPT !.size = U(s.size + nr)])

\* Fault variant of WstrAppend: the terminator written before the size moves.
AppendEarlyTerminator(s, t, n) ==
  [Terminate(MemCpy(s, s.size, t, n)) EXCEPT !.size = U(s.size + n)]

\* wstr_append_with_len once extended.
WstrAppend(s, t, n) ==
  Terminate([MemCpy(s, s.size, t, n) EXCEPT !.size = U(s.size + n)])

(* The loop of wstr_normalize_newline: s reads and d writes; "\r\n",    *)
(* "\r" and "\n" each become newline; it stops at the first 0 and       *)
(* writes the terminator and the size there.                               *)
RECURSIVE NormalizeLoop(_, _, _, _)
NormalizeLoop(s, si, di, nl) ==
  LET c == Get(s, si)
  IN IF si >= Len(s.buf) THEN [s EXCEPT !.fault = TRUE]
     ELSE IF c = NUL THEN [Put(s, di, NUL) EXCEPT !.size = di]
     ELSE IF c = CR /\ si + 1 >= Len(s.buf) THEN [s EXCEPT !.fault = TRUE]
     ELSE IF c = CR
          THEN NormalizeLoop(Put(s, di, nl), IF Get(s, si + 1) = LF THEN si + 2 ELSE si + 1,
                             di + 1, nl)
     ELSE IF c = LF THEN NormalizeLoop(Put(s, di, nl), si + 1, di + 1, nl)
     ELSE NormalizeLoop(Put(s, di, c), si + 1, di + 1, nl)

NormalizeNewline(s, nl) == NormalizeLoop(s, 0, 0, nl)

-----------------------------------------------------------------------------
\* The text a wstr_t holds: the first size elements.
Text(s) == SubSeq(s.buf, 1, s.size)

\* The buffer of wstr_init(capacity) (TKMEM_ZALLOC'd struct, extendable).
Created(c) ==
  Extend([buf |-> <<>>, size |-> 0, capacity |-> 0, extendable |-> TRUE,
          fault |-> FALSE], c)

(* wstr_create / wstr_init with a capacity the heap grants, or            *)
(* wstr_attach to a zeroed buffer of c elements.                           *)
Init ==
  /\ \/ \E c \in 0 .. MaxCap : Created(c).ok /\ str = Created(c).s
     \/ \E c \in 1 .. MaxCap : str = [buf |-> [k \in 1 .. c |-> NUL], size |-> 0,
                                     capacity |-> c, extendable |-> FALSE, fault |-> FALSE]
  /\ last = [op |-> "init", ok |-> TRUE, off |-> 0, nr |-> 0, t |-> <<>>]

\* Record a call; every call needs a string whose memory is still defined.
Done(op, ok, off, nr, t, s) ==
  /\ str' = s
  /\ last' = [op |-> op, ok |-> ok, off |-> off, nr |-> nr, t |-> t]

Live == ~str.fault

\* wstr_extend called directly.
ExtendCall(c) ==
  /\ Live
  /\ LET r == Extend(str, c) IN Done("extend", r.ok, 0, c, <<>>, r.s)

\* wstr_shrink.
Shrink(n) ==
  /\ Live
  /\ Done("shrink", TRUE, 0, n, <<>>,
          IF n < str.size THEN Put([str EXCEPT !.size = n], n, NUL) ELSE str)

(* wstr_set_with_len (wstr_set passes 0xffffffff): at most len           *)
(* characters of the text, after extending to size + 1.                    *)
SetWithLen(t, len) ==
  /\ Live
  /\ LET size == IF Len(t) < len THEN Len(t) ELSE len
         r == Extend(str, U(size + 1))
     IN IF r.ok
        THEN Done("set", TRUE, 0, size, t,
                  Terminate([MemCpy(r.s, 0, t, size) EXCEPT !.size = size]))
        ELSE Done("set", FALSE, 0, size, t, r.s)

\* wstr_clear.
Clear ==
  /\ Live
  /\ Done("clear", TRUE, 0, 0, <<>>,
          IF str.buf = <<>> THEN [str EXCEPT !.size = 0]
          ELSE Put([str EXCEPT !.size = 0], 0, NUL))

\* wstr_remove with its parameter check.
RemoveCall(off, nr) ==
  /\ Live
  /\ IF off < str.size
     THEN Done("remove", TRUE, off, nr, <<>>, WstrRemove(str, off, nr))
     ELSE Done("remove", FALSE, off, nr, <<>>, str)

(* wstr_insert of the first nr characters of t: its check, then          *)
(* wstr_extend(size + nr + 1) in uint32.                                   *)
InsertCall(off, t, nr) ==
  /\ Live
  /\ LET r == Extend(str, U(str.size + nr + 1))
     IN IF off <= str.size /\ r.ok
        THEN Done("insert", TRUE, off, nr, t, WstrInsert(r.s, off, t, nr))
        ELSE Done("insert", FALSE, off, nr, t, IF off <= str.size THEN r.s ELSE str)

\* wstr_modify_wchar.
ModifyWchar(pos, c) ==
  /\ Live
  /\ IF pos < str.size
     THEN Done("modify", TRUE, pos, 1, <<c>>, Put(str, pos, c))
     ELSE Done("modify", FALSE, pos, 1, <<c>>, str)

\* wstr_append_with_len (wstr_append passes the whole text).
AppendCall(t, n) ==
  /\ Live
  /\ LET r == Extend(str, U(str.size + n + 1))
     IN IF r.ok THEN Done("append", TRUE, 0, n, t, WstrAppend(r.s, t, n))
        ELSE Done("append", FALSE, 0, n, t, r.s)

\* wstr_push.
Push(c) ==
  /\ Live
  /\ LET r == Extend(str, U(str.size + 2))
     IN IF r.ok
        THEN Done("push", TRUE, 0, 1, <<c>>,
                  Terminate([Put(r.s, r.s.size, c) EXCEPT !.size = U(r.s.size + 1)]))
        ELSE Done("push", FALSE, 0, 1, <<c>>, r.s)

\* wstr_pop.
Pop ==
  /\ Live
  /\ IF str.size > 0
     THEN Done("pop", TRUE, 0, 1, <<>>, Terminate([str EXCEPT !.size = @ - 1]))
     ELSE Done("pop", FALSE, 0, 1, <<>>, str)

\* wstr_reset: an owned buffer is freed; the string is empty and NULL.
Reset ==
  /\ Live
  /\ Done("reset", TRUE, 0, 0, <<>>, [str EXCEPT !.buf = <<>>, !.size = 0, !.capacity = 0])

\* wstr_normalize_newline (no check that a buffer exists).
NormalizeCall(nl) ==
  /\ Live
  /\ NullNormalize \/ str.buf # <<>>
  /\ Done("normalize", TRUE, 0, 0, <<nl>>, NormalizeNewline(str, nl))

Next ==
  \/ \E c \in 0 .. MaxCap + 1 : ExtendCall(c)
  \/ \E n \in 0 .. str.size : Shrink(n)
  \/ \E t \in Texts, len \in {0, 1, U(0 - 1)} : SetWithLen(t, len)
  \/ Clear
  \/ \E off \in 0 .. str.size, nr \in RemoveCounts : RemoveCall(off, nr)
  \/ \E off \in 0 .. str.size, t \in Texts \ {<<>>} :
       \E nr \in 1 .. Len(t) : InsertCall(off, t, nr)
  \/ \E pos \in 0 .. str.size, c \in Chars : ModifyWchar(pos, c)
  \/ \E t \in Texts : \E n \in 0 .. Len(t) : AppendCall(t, n)
  \/ \E c \in Chars : Push(c)
  \/ Pop
  \/ Reset
  \/ \E nl \in {CR, LF} : NormalizeCall(nl)

Spec == Init /\ [][Next]_vars
-----------------------------------------------------------------------------
(* Properties.                                                             *)

TypeOK ==
  /\ str.size \in 0 .. Modulus - 1 /\ str.capacity \in 0 .. Modulus - 1
  /\ str.extendable \in BOOLEAN /\ str.fault \in BOOLEAN
  /\ str.buf \in Seq(Chars \cup {NUL, Junk})

(* What each call means for the text, written over sequences: the         *)
(* reference the buffer manipulations of wstr.c are checked against.       *)
(* "\r\n", "\r" and "\n" each become one newline.                         *)
RECURSIVE NewlinesAs(_, _)
NewlinesAs(T, nl) ==
  IF T = <<>> THEN <<>>
  ELSE IF Len(T) >= 2 /\ T[1] = CR /\ T[2] = LF THEN <<nl>> \o NewlinesAs(Tail(Tail(T)), nl)
  ELSE <<IF T[1] \in {CR, LF} THEN nl ELSE T[1]>> \o NewlinesAs(Tail(T), nl)

Meaning(T, l) ==
  CASE l.op \in {"init", "extend"} -> T
    [] l.op = "shrink"    -> SubSeq(T, 1, IF l.nr < Len(T) THEN l.nr ELSE Len(T))
    [] l.op = "set"       -> SubSeq(l.t, 1, l.nr)
    [] l.op \in {"clear", "reset"} -> <<>>
    [] l.op = "remove"    -> SubSeq(T, 1, l.off) \o SubSeq(T, l.off + l.nr + 1, Len(T))
    [] l.op = "insert"    -> SubSeq(T, 1, l.off) \o SubSeq(l.t, 1, l.nr) \o SubSeq(T, l.off + 1, Len(T))
    [] l.op = "modify"    -> [T EXCEPT ![l.off + 1] = l.t[1]]
    [] l.op = "append"    -> T \o SubSeq(l.t, 1, l.nr)
    [] l.op = "push"      -> T \o l.t
    [] l.op = "pop"       -> SubSeq(T, 1, Len(T) - 1)
    [] l.op = "normalize" -> NewlinesAs(T, l.t[1])

(* No call reads or writes outside the buffer, or through a NULL one:    *)
(* every index, memmove count and pointer sum the calls compute in uint32 *)
(* stays inside the memory the string owns or was attached to.            *)
MemorySafe == ~str.fault

(* The representation every call relies on and restores: the text is the *)
(* first size elements, all characters, followed by the terminator; an    *)
(* extendable buffer holds capacity + 1 elements and an attached one       *)
(* capacity; a NULL buffer is empty with no capacity.                      *)
WellFormed ==
  IF str.buf = <<>>
  THEN str.size = 0 /\ str.capacity = 0
  ELSE /\ Len(str.buf) = str.capacity + (IF str.extendable THEN 1 ELSE 0)
       /\ str.size < Len(str.buf)
       /\ str.buf[str.size + 1] = NUL
       /\ \A k \in 1 .. str.size : str.buf[k] \in Chars

(* Every call that returns RET_OK leaves the text it documents (the       *)
(* remove clamped to the end, the insert in place, newlines normalized);  *)
(* every call that fails leaves the text as it was.                        *)
TextSemantics ==
  [][~str'.fault =>
       Text(str') = IF last'.ok THEN Meaning(Text(str), last') ELSE Text(str)]_vars
====
