------------------------------ MODULE MemFill ------------------------------
(***************************************************************************)
(* The pixel fills and bit streams of src/src/tkc/utils.c as pure          *)
(* operators over memory.  Memory is a function from byte addresses        *)
(* 0 .. MemBytes - 1 to byte values; address 0 is 4-byte aligned, so       *)
(* (size_t)pb % 4 is pb % 4.  Multi-byte stores are little-endian.  A      *)
(* store outside the memory sets fault.                                    *)
(***************************************************************************)
EXTENDS Integers, Sequences, Bitwise

CONSTANTS MemBytes

Addrs == 0 .. MemBytes - 1

\* Store the bytes of seq from address a on.
Store(m, a, seq) ==
  IF a >= 0 /\ a + Len(seq) <= MemBytes
  THEN [m EXCEPT !.mem = [x \in Addrs |->
                           IF a <= x /\ x < a + Len(seq) THEN seq[x - a + 1] ELSE m.mem[x]]]
  ELSE [m EXCEPT !.fault = TRUE]

-----------------------------------------------------------------------------
(* tk_memset16(buff, val, size), val given as its bytes lo and hi.  The    *)
(* first loop stores uint16 values until pb is 4-byte aligned; then size/8 *)
(* blocks of four uint32 stores of val | val << 16; then size % 8 uint16.  *)
RECURSIVE Align16(_, _, _, _)
Align16(m, pb, size, v) ==
  IF pb % 4 # 0 /\ size > 0 THEN Align16(Store(m, pb, v), pb + 2, size - 1, v)
  ELSE [m |-> m, pb |-> pb, size |-> size]

RECURSIVE Blocks(_, _, _, _)
Blocks(m, pb, n, data) ==
  IF n > 0 THEN Blocks(Store(m, pb, data), pb + Len(data), n - 1, data) ELSE m

\* Fault variant of TkMemset16: the tail count taken as size % 4.
TkMemset16TailMod4(m, buff, lo, hi, size) ==
  LET a == Align16(m, buff, size, <<lo, hi>>)
      m1 == Blocks(a.m, a.pb, a.size \div 8, <<lo, hi, lo, hi, lo, hi, lo, hi,
                                              lo, hi, lo, hi, lo, hi, lo, hi>>)
  IN Blocks(m1, a.pb + 16 * (a.size \div 8), a.size % 4, <<lo, hi>>)

TkMemset16(m, buff, lo, hi, size) ==
  LET a == Align16(m, buff, size, <<lo, hi>>)
      m1 == Blocks(a.m, a.pb, a.size \div 8, <<lo, hi, lo, hi, lo, hi, lo, hi,
                                              lo, hi, lo, hi, lo, hi, lo, hi>>)
  IN Blocks(m1, a.pb + 16 * (a.size \div 8), a.size % 8, <<lo, hi>>)

(* tk_memset24(buff, val, size) for the three bytes s of val: 3-byte       *)
(* stores until pb is aligned; then bytes / 12 groups of the three uint32  *)
(* data0, data1, data2 (four pixels); then the rest 3 bytes at a time.     *)
RECURSIVE Align24(_, _, _, _)
Align24(m, pb, size, s) ==
  IF pb % 4 # 0 /\ size > 0 THEN Align24(Store(m, pb, s), pb + 3, size - 1, s)
  ELSE [m |-> m, pb |-> pb, size |-> size]

TkMemset24(m, buff, s, size) ==
  LET a == Align24(m, buff, size, s)
      bytes == a.size * 3
      m1 == Blocks(a.m, a.pb, bytes \div 12, s \o s \o s \o s)
  IN Blocks(m1, a.pb + 12 * (bytes \div 12), (bytes % 12) \div 3, s)

-----------------------------------------------------------------------------
(* bits_stream_get and bits_stream_set on a buffer of size bytes (a        *)
(* sequence of numbers 0..255): bit index % 8 of byte index >> 3.  The     *)
(* TK_*_BIT macros (types_def.h, outside src/) test, set and clear         *)
(* 1 << offset.                                                             *)
TestBit(v, offset) == (shiftR(v, offset) & 1) = 1

(* Fault variant of BitsStreamSet: the range check index > max_index; at *)
(* index = max_index the byte stored is the one past the buffer.          *)
BitsStreamSetOffByOne(buff, index, value) ==
  IF index > Len(buff) * 8 THEN [buff |-> buff, ret |-> "RET_BAD_PARAMS"]
  ELSE IF index \div 8 >= Len(buff) THEN [buff |-> buff, ret |-> "RET_OK"]
  ELSE LET v == buff[index \div 8 + 1]
           bit == 2 ^ (index % 8)
       IN [buff |-> [buff EXCEPT ![index \div 8 + 1] = IF value THEN v | bit ELSE v & (255 - bit)],
           ret |-> "RET_OK"]

BitsStreamSet(buff, index, value) ==
  IF index >= Len(buff) * 8 THEN [buff |-> buff, ret |-> "RET_BAD_PARAMS"]
  ELSE LET v == buff[index \div 8 + 1]
           bit == 2 ^ (index % 8)
       IN [buff |-> [buff EXCEPT ![index \div 8 + 1] = IF value THEN v | bit ELSE v & (255 - bit)],
           ret |-> "RET_OK"]

BitsStreamGet(buff, index) ==
  IF index >= Len(buff) * 8 THEN [value |-> FALSE, ret |-> "RET_BAD_PARAMS"]
  ELSE [value |-> TestBit(buff[index \div 8 + 1], index % 8), ret |-> "RET_OK"]

(* tk_bits_data_from_bytes_data: bit i is set to bytes[i] != 0 for every  *)
(* i < bytes_size, whatever bits_stream_set returns.                       *)
RECURSIVE FromBytesLoop(_, _, _)
FromBytesLoop(bits, bytes, i) ==
  IF i < Len(bytes)
  THEN FromBytesLoop(BitsStreamSet(bits, i, bytes[i + 1] # 0).buff, bytes, i + 1)
  ELSE bits

TkBitsDataFromBytesData(bits, bytes) == FromBytesLoop(bits, bytes, 0)

\* Fault variant of TkBitsDataToBytesData: a failed get stores 0.
TkBitsDataToBytesZeroFill(bits, bytes) ==
  [i \in DOMAIN bytes |->
     LET g == BitsStreamGet(bits, i - 1) IN IF g.ret = "RET_OK" /\ g.value THEN 1 ELSE 0]

(* tk_bits_data_to_bytes_data: bytes[i] is 1 or 0 from bit i when         *)
(* bits_stream_get succeeds, and left as it was otherwise.                 *)
TkBitsDataToBytesData(bits, bytes) ==
  [i \in DOMAIN bytes |->
     LET g == BitsStreamGet(bits, i - 1)
     IN IF g.ret = "RET_OK" THEN (IF g.value THEN 1 ELSE 0) ELSE bytes[i]]

=============================================================================
