------------------------------ MODULE MemCopy ------------------------------
(***************************************************************************)
(* The copy routines of src/src/tkc/utils.c over the memory of MemFill.   *)
(* A routine returns the memory after it and the pointer it returns.  An   *)
(* int, short or byte store of the copy loops is a copy of 4, 2 or 1       *)
(* bytes; the C library's memcpy is one copy of the whole range.          *)
(***************************************************************************)
EXTENDS Integers, Sequences, MemFill

\* The n bytes from address s, or a fault when they lie outside the memory.
CopyBytes(m, d, s, n) ==
  IF n = 0 THEN m
  ELSE IF s >= 0 /\ s + n <= MemBytes
       THEN Store(m, d, [k \in 1 .. n |-> m.mem[s + k - 1]])
       ELSE [m EXCEPT !.fault = TRUE]

\* The int stores of the switch: n words from byte offset off of both.
RECURSIVE CopyWords(_, _, _, _, _)
CopyWords(m, d, s, off, n) ==
  IF n > 0 THEN CopyWords(CopyBytes(m, d + off, s + off, 4), d, s, off + 4, n - 1) ELSE m

(* tk_memcpy_by_align_4 for 0 < len < 64: the switch falls through from    *)
(* case len down the cases of its residue mod 4: int stores at dd - len,   *)
(* dd - len + 4, ... and then a short and a byte (residue 3), a short      *)
(* (residue 2) or a byte (residue 1), where dd = dst + len.  It returns    *)
(* dd; a len of 64 or more goes to memcpy, which returns dst.  The two     *)
(* asserts require both pointers 4-byte aligned.                           *)
TinyCopy(m, d, s, len) ==
  LET r == len % 4
      m1 == CopyWords(m, d, s, 0, len \div 4)
      w == 4 * (len \div 4)
  IN CASE r = 0 -> m1
       [] r = 1 -> CopyBytes(m1, d + w, s + w, 1)
       [] r = 2 -> CopyBytes(m1, d + w, s + w, 2)
       [] r = 3 -> CopyBytes(CopyBytes(m1, d + w, s + w, 2), d + w + 2, s + w + 2, 1)

TkMemcpyByAlign4(m, d, s, len) ==
  IF len > 0 /\ len < 64
  THEN [m |-> TinyCopy(m, d, s, len), ret |-> d + len, aligned |-> d % 4 = 0 /\ s % 4 = 0]
  ELSE IF len > 0
  THEN [m |-> CopyBytes(m, d, s, len), ret |-> d, aligned |-> TRUE]
  ELSE [m |-> m, ret |-> d, aligned |-> TRUE]

\* Fault variant of TkMemcpy: the prefix loop bounded by offset only.
TkMemcpyPrefixUnbounded(m, d, s, len) ==
  LET os == s % 4
      offset == 4 - os
      m1 == IF os # 0 THEN CopyBytes(m, d, s, offset) ELSE m
      cur == IF os # 0 THEN len - offset ELSE len
  IN IF os # d % 4 THEN [m |-> CopyBytes(m, d, s, len), ret |-> d, aligned |-> TRUE]
     ELSE IF cur > 0
          THEN TkMemcpyByAlign4(m1, IF os # 0 THEN d + offset ELSE d,
                                    IF os # 0 THEN s + offset ELSE s, cur)
          ELSE [m |-> m1, ret |-> d, aligned |-> TRUE]

(* tk_memcpy: with src and dst equally misaligned, the bytes up to the     *)
(* next 4-byte boundary (at most len of them) are copied one by one, both  *)
(* pointers move past the boundary and the int32 curr_len = len - offset   *)
(* that remains, if positive, goes to tk_memcpy_by_align_4, whose result   *)
(* is returned.  Otherwise memcpy copies everything.                       *)
TkMemcpy(m, d, s, len) ==
  LET os == s % 4
      offset == 4 - os
      m1 == IF os # 0 THEN CopyBytes(m, d, s, IF offset < len THEN offset ELSE len) ELSE m
      cur == IF os # 0 THEN len - offset ELSE len
  IN IF os # d % 4 THEN [m |-> CopyBytes(m, d, s, len), ret |-> d, aligned |-> TRUE]
     ELSE IF cur > 0
          THEN TkMemcpyByAlign4(m1, IF os # 0 THEN d + offset ELSE d,
                                    IF os # 0 THEN s + offset ELSE s, cur)
          ELSE [m |-> m1, ret |-> d, aligned |-> TRUE]

(* tk_pixel_copy without HAS_FAST_MEMCPY: 2- and 4-byte pixels through     *)
(* tk_memcpy16 and tk_memcpy32, whose loops copy one pixel per step; any   *)
(* other size through memcpy of size * bpp bytes.                          *)
TkPixelCopy(m, d, s, size, bpp) == CopyBytes(m, d, s, size * bpp)
=============================================================================
