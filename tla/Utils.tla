------------------------------- MODULE Utils -------------------------------
(***************************************************************************)
(* A caller of the pure routines of src/src/tkc/utils.c, the default      *)
(* children layouter and the JSON reader and writer.  Each step calls      *)
(* one routine on inputs drawn from small sets and records the call, its  *)
(* inputs and its result in call; the properties compare the result with  *)
(* a reference definition of what the routine computes.                   *)
(***************************************************************************)
EXTENDS Integers, Sequences, SequencesExt, Sort, StrUtils, MemFill, MemCopy, StrEdit, Sscanf,
        ChildrenLayout, ConfJson

CONSTANTS
  Keys,              \* comparison keys of array elements (integers)
  MaxLen,            \* the longest array sorted or searched
  MergeAllocMayFail, \* TKMEM_ALLOC in merge may fail
  Letters,           \* ordinary characters of strings and patterns
  MaxStr,            \* the longest string or pattern
  IntValues,         \* values passed to tk_itoa
  MaxPixels,         \* the largest pixel count of a fill
  Bytes,             \* byte values a bit-stream buffer starts with
  MaxCopy,           \* the longest tk_memcpy
  NumChars,          \* characters of the strings given to tk_strtol
  LongNums,          \* strings of ten or more digits for tk_strtol
  LevelEntries,      \* entries of the levels strings of tk_levelize
  ScanChars,         \* characters of the strings given to tk_sscanf_simple
  Formats,           \* formats given to tk_sscanf_simple
  LayoutParams,      \* parameter lists of default children layouters
  LayoutSizes,       \* layout_w and layout_h of the widget laid out
  KidSizes,          \* widths and heights of the children laid out
  MaxKids,           \* the most children laid out
  JsonScalars,       \* simple values of conf_doc nodes
  JsonNames,         \* names of object members
  JsonComments       \* comments put before the JSON text

VARIABLE call

vars == <<call>>

\* Strings over the given characters, up to n long.
Strings(cs, n) == UNION {[1 .. k -> cs] : k \in 0 .. n}

Leq(x, y) == x <= y

\* An array of elements with the given keys; the id is the position.
Tag(ks) == [i \in DOMAIN ks |-> <<ks[i], i>>]
KeyArrays == Strings(Keys, MaxLen)
Lo == "lo"
Hi == "hi"
Pixel == <<"s0", "s1", "s2">>
Blank == [mem |-> [x \in Addrs |-> "old"], fault |-> FALSE]

\* Memory whose every byte holds its own address, and the copy destination.
Counting == [mem |-> [x \in Addrs |-> x], fault |-> FALSE]
CopyDst == 4 * (MaxCopy \div 4 + 2)

(* C's sscanf on formats of %d, %u, %x and literals other than spaces:    *)
(* spaces before a number, an optional sign, the longest run of digits of *)
(* the base.  complete is FALSE when a conversion finds no digits (C then *)
(* returns the count so far, or EOF at the end of the input).              *)
RefDigits == <<"0", "1", "2", "3", "4", "5", "6", "7", "8", "9", "a", "b", "c", "d", "e", "f">>
RefDigit(c, base) == IF \E k \in 1 .. base : RefDigits[k] = c
                     THEN CHOOSE k \in 0 .. base - 1 : RefDigits[k + 1] = c ELSE -1
PlainFormat(fmt) ==
  /\ " " \notin ToSet(fmt)
  /\ \A k \in DOMAIN fmt : fmt[k] = "%" => k < Len(fmt) /\ fmt[k + 1] \in {"d", "u", "x"}
RECURSIVE CScan(_, _, _, _, _)
CScan(t, fmt, i, f, acc) ==
  IF f >= Len(fmt) THEN [vals |-> acc, complete |-> TRUE]
  ELSE IF fmt[f + 1] # "%"
  THEN IF i < Len(t) /\ t[i + 1] = fmt[f + 1] THEN CScan(t, fmt, i + 1, f + 1, acc)
       ELSE [vals |-> acc, complete |-> TRUE]
  ELSE LET c == fmt[f + 2]
           base == IF c = "x" THEN 16 ELSE 10
           ws == Max({k \in i .. Len(t) : \A j \in i + 1 .. k : t[j] \in {" ", "\t"}})
           s == IF ws < Len(t) /\ t[ws + 1] \in {"+", "-"} THEN ws + 1 ELSE ws
           run == Max({k \in 0 .. Len(t) - s : \A j \in s + 1 .. s + k : RefDigit(t[j], base) >= 0})
           v == FoldLeft(LAMBDA a, j : a * base + RefDigit(t[j], base), 0, [k \in 1 .. run |-> s + k])
       IN IF run = 0 THEN [vals |-> acc, complete |-> FALSE]
          ELSE CScan(t, fmt, s + run, f + 2,
                     Append(acc, [conv |-> c, n |-> IF s > ws /\ t[s] = "-" THEN -v ELSE v]))

\* A buffer of n cells holding t and its terminator, then old contents.
BufferWith(t, n) ==
  [cells |-> [k \in 1 .. n |-> IF k <= Len(t) THEN t[k] ELSE IF k = Len(t) + 1 THEN NUL ELSE "old"],
   fault |-> FALSE]

\* Levels strings: their parsed entries in increasing order.
LevelStrings ==
  {ls \in Strings(LevelEntries, 3) \ {<<>>} :
     \A i, j \in DOMAIN ls : i < j /\ ls[i].ok /\ ls[j].ok => ls[i].hi < ls[j].lo}

\* conf_doc nodes: a simple one, an object of <<name, node>> members, an array of nodes.
Leaf(v) == [type |-> "simple", val |-> v, kids |-> <<>>]
Obj(ms) == [type |-> "obj", val |-> [t |-> "none"], kids |-> ms]
Arr(es) == [type |-> "arr", val |-> [t |-> "none"], kids |-> [i \in DOMAIN es |-> <<DecimalText(i - 1), es[i]>>]]
\* Members and elements: simple values, and empty or one-child objects and arrays.
JsonItems ==
  {Leaf(v) : v \in JsonScalars} \cup {Obj(<<>>), Arr(<<>>)}
  \cup {Obj(<<<<n, Leaf(v)>>>>) : n \in JsonNames, v \in JsonScalars} \cup {Arr(<<Leaf(v)>>) : v \in JsonScalars}
\* Document roots: objects and arrays of up to two of them.
JsonDocs ==
  {Obj(ms) : ms \in Strings(JsonNames \X JsonItems, 2)} \cup {Arr(es) : es \in Strings(JsonItems, 2)}

Record(op, in, arg, out, ret) ==
  call' = [op |-> op, in |-> in, arg |-> arg, out |-> out, ret |-> ret]

Idle == [op |-> "none", in |-> <<>>, arg |-> 0, out |-> <<>>, ret |-> "RET_OK"]

Init == call = Idle

\* The caller returns, ready for its next call.
Return == call # Idle /\ call' = Idle

\* tk_qsort.
Qsort(ks) == Record("qsort", Tag(ks), 0, TkQsort(Tag(ks)), "RET_OK")

\* tk_mergesort; with MergeAllocMayFail any set of its merge calls may fail.
Mergesort(ks) ==
  \E fails \in IF MergeAllocMayFail THEN SUBSET MergeCalls(0, Len(ks)) ELSE {{}} :
    LET r == TkMergesort(Tag(ks), fails) IN Record("mergesort", Tag(ks), fails, r.a, r.ret)

\* tk_strs_bsearch on a sorted array.
Bsearch(ks, key) ==
  /\ IsSorted(ks, Leq)
  /\ Record("bsearch", Tag(ks), key, TkStrsBsearch(Tag(ks), key), "RET_OK")

\* tk_wild_card_match.
WildCard(p, s) == Record("wildcard", p, s, TkWildCardMatch(p, s), "RET_OK")

\* tk_strrstr.
Strrstr(s, sub) == Record("strrstr", s, sub, TkStrrstr(s, sub), "RET_OK")

\* tk_itoa into a buffer of len characters.
Itoa(len, n) == Record("itoa", n, len, TkItoa(len, n), "RET_OK")

\* tk_memset16 and tk_memset24 at address buff.
Memset16(buff, size) ==
  Record("memset16", buff, size, TkMemset16(Blank, buff, Lo, Hi, size), "RET_OK")
Memset24(buff, size) ==
  Record("memset24", buff, size, TkMemset24(Blank, buff, Pixel, size), "RET_OK")

\* bits_stream_set and bits_stream_get.
BitsSet(buff, index, value) ==
  LET r == BitsStreamSet(buff, index, value)
  IN Record("bits_set", buff, <<index, value>>, r.buff, r.ret)
BitsGet(buff, index) ==
  LET r == BitsStreamGet(buff, index)
  IN Record("bits_get", buff, index, r.value, r.ret)

(* tk_memcpy from src to CopyDst + dalign, and tk_pixel_copy of size     *)
(* pixels of bpp bytes from 0 to CopyDst.                                 *)
Memcpy(src, dalign, len) ==
  Record("memcpy", <<CopyDst + dalign, src, len>>, len,
         TkMemcpy(Counting, CopyDst + dalign, src, len), "RET_OK")
PixelCopy(size, bpp) ==
  Record("memcpy", <<CopyDst, 0, size * bpp>>, size * bpp,
         [m |-> TkPixelCopy(Counting, CopyDst, 0, size, bpp), ret |-> CopyDst, aligned |-> TRUE],
         "RET_OK")

\* tk_str_trim_left and tk_str_trim_right.
TrimLeft(t, cs) == Record("trim_left", t, cs, TkStrTrimLeft(t, cs), "RET_OK")
TrimRight(t, cs) == Record("trim_right", t, cs, TkStrTrimRight(t, cs), "RET_OK")

\* tk_str_append to t in a buffer of n characters, passed as max_len.
StrAppend(t, n, x) ==
  LET r == TkStrAppend(BufferWith(t, n), n, x)
  IN Record("append", <<t, n>>, x, r.b, r.ret)

\* tk_strncpy_s into a buffer of dst_len characters.
StrncpyS(dst_len, src, src_len) ==
  Record("strncpy_s", src, <<dst_len, src_len>>,
         TkStrncpyS(BufferWith(<<>>, dst_len), dst_len, src, src_len), "RET_OK")

\* tk_str_start_with and tk_str_end_with.
Affix(x, y) == Record("affix", x, y, <<TkStrStartWith(x, y), TkStrEndWith(x, y)>>, "RET_OK")

\* tk_levelize and tk_strtol.
Levelize(ls, v) == Record("levelize", ls, v, TkLevelize(ls, v), "RET_OK")
Strtol(t, base) == Record("strtol", t, base, TkStrtol(t, base), "RET_OK")

\* tk_sscanf_simple.
Sscanf(t, fmt) == Record("sscanf", t, fmt, TkVsscanfSimple(t, fmt), "RET_OK")

(* children_layouter_default_create, set_param with each parameter of ps *)
(* and layout of square children of the given sizes.                      *)
Layout(ps, lw, lh, ks) ==
  LET kids == [i \in DOMAIN ks |-> [x |-> 0, y |-> 0, w |-> ks[i], h |-> ks[i]]]
      r == ChildrenLayoutDefault(Configured(ps), lw, lh, kids)
  IN Record("layout", <<ps, kids>>, <<lw, lh>>, r.kids, r.ret)

(* tk_bits_data_from_bytes_data into bits, then tk_bits_data_to_bytes_data *)
(* into a buffer of the same length holding 2 (neither 0 nor 1).           *)
BitsData(bits, bytes) ==
  LET b == TkBitsDataFromBytesData(bits, bytes)
  IN Record("bits_round_trip", bits, bytes,
            TkBitsDataToBytesData(b, [i \in DOMAIN bytes |-> 2]), "RET_OK")

(* conf_doc_save_json_ex of the document with the indent, then           *)
(* conf_doc_load_json of that text after a comment.                        *)
JsonRoundTrip(doc, indent, pre) ==
  Record("json", doc, <<indent, pre>>, LoadJson(pre \o SaveJson(doc, indent)), "RET_OK")

Calls ==
  \/ \E ks \in KeyArrays : Qsort(ks) \/ Mergesort(ks)
  \/ \E ks \in KeyArrays, key \in Keys : Bsearch(ks, key)
  \/ \E p \in Strings(Letters \cup {STAR, QMARK}, MaxStr), s \in Strings(Letters, MaxStr) :
       WildCard(p, s)
  \/ \E s \in Strings(Letters, MaxStr + 1), sub \in Strings(Letters, 2) : Strrstr(s, sub)
  \/ \E len \in 1 .. 6, n \in IntValues : Itoa(len, n)
  \/ \E buff \in 0 .. 3, size \in 0 .. MaxPixels : Memset16(buff, size) \/ Memset24(buff, size)
  \/ \E buff \in Strings(Bytes, 2), index \in 0 .. 17 :
       \/ \E value \in BOOLEAN : BitsSet(buff, index, value)
       \/ BitsGet(buff, index)
  \/ \E bits \in Strings(Bytes, 2) \ {<<>>}, bytes \in Strings({0, 1}, 10) :
       BitsData(bits, bytes)
  \/ \E src, dalign \in 0 .. 3, len \in 0 .. MaxCopy : Memcpy(src, dalign, len)
  \/ \E size \in 0 .. 4, bpp \in 1 .. 4 : PixelCopy(size, bpp)
  \/ \E t \in Strings(Letters, MaxStr), cs \in SUBSET Letters : TrimLeft(t, cs) \/ TrimRight(t, cs)
  \/ \E t \in Strings(Letters, 3), x \in Strings(Letters, 2), n \in 1 .. 6 :
       Len(t) < n /\ StrAppend(t, n, x)
  \/ \E dst_len \in 1 .. 4, src \in Strings(Letters, 3), src_len \in 0 .. 4 :
       StrncpyS(dst_len, src, src_len)
  \/ \E x, y \in Strings(Letters, 3) : Affix(x, y)
  \/ \E ls \in LevelStrings, v \in -1 .. 10 : Levelize(ls, v)
  \/ \E t \in Strings(NumChars, 3), base \in {8, 10, 16} : Strtol(t, base)
  \/ \E t \in LongNums, base \in {8, 10} : Strtol(t, base)
  \/ \E t \in Strings(ScanChars, 4), fmt \in Formats : Sscanf(t, fmt)
  \/ \E ps \in LayoutParams, lw, lh \in LayoutSizes, ks \in Strings(KidSizes, MaxKids) :
       Layout(ps, lw, lh, ks)

Next == (call = Idle /\ Calls) \/ Return

Spec == Init /\ [][Next]_vars

\* The caller of the JSON reader and writer: a document saved and loaded again.
JsonNext ==
  \/ call = Idle /\ \E doc \in JsonDocs, indent \in {0, 4}, pre \in JsonComments :
                      JsonRoundTrip(doc, indent, pre)
  \/ Return

JsonSpec == Init /\ [][JsonNext]_vars
-----------------------------------------------------------------------------
(* Reference definitions.                                                  *)

KeysOf(a) == [i \in DOMAIN a |-> a[i][1]]

\* A sorted rearrangement of the same elements.
SortedPermutationOf(out, in) ==
  /\ IsSorted(KeysOf(out), Leq)
  /\ Len(out) = Len(in) /\ ToSet(out) = ToSet(in)

\* Shell-style matching: '*' any string, '?' any one character.
RECURSIVE Glob(_, _)
Glob(p, s) ==
  IF p = <<>> THEN s = <<>>
  ELSE IF Head(p) = STAR THEN Glob(Tail(p), s) \/ (s # <<>> /\ Glob(p, Tail(s)))
  ELSE s # <<>> /\ Head(p) \in {QMARK, Head(s)} /\ Glob(Tail(p), Tail(s))

\* Bit i of a byte buffer, by arithmetic.
Bit(b, i) == (b[i \div 8 + 1] \div 2 ^ (i % 8)) % 2 = 1

\* The memory after filling size pixels of the given bytes from buff.
Filled(buff, size, pattern) ==
  [x \in Addrs |-> IF buff <= x /\ x < buff + Len(pattern) * size
                   THEN pattern[((x - buff) % Len(pattern)) + 1] ELSE "old"]

-----------------------------------------------------------------------------
(* Properties.                                                             *)

(* tk_qsort leaves every array, duplicates included, sorted and holding   *)
(* the same elements: the hole-filling partition loops and the pivot      *)
(* placement neither lose nor duplicate an element.                        *)
QsortSorts == call.op = "qsort" => SortedPermutationOf(call.out, call.in)

(* tk_mergesort returning RET_OK has sorted the array, and stably: equal  *)
(* keys keep their order, which merge's "<= 0" tie rule provides.          *)
MergesortSortsStably ==
  call.op = "mergesort" /\ call.ret = "RET_OK" =>
    /\ SortedPermutationOf(call.out, call.in)
    /\ \A i, j \in DOMAIN call.out :
         i < j /\ call.out[i][1] = call.out[j][1] => call.out[i][2] < call.out[j][2]

(* tk_strs_bsearch on a sorted array finds an element with the key        *)
(* exactly when one is there: the int32 bounds neither skip nor revisit.   *)
BsearchFinds ==
  call.op = "bsearch" =>
    IF call.arg \in {e[1] : e \in ToSet(call.in)}
    THEN call.out \in ToSet(call.in) /\ call.out[1] = call.arg
    ELSE call.out = "NULL"

(* tk_wild_card_match agrees with shell matching for patterns whose only  *)
(* '*', if any, is the last character: '?' and ordinary characters, the    *)
(* end of either string, and the trailing '*' break.                       *)
WildcardPrefixPatterns ==
  call.op = "wildcard" /\ (\A i \in 1 .. Len(call.in) - 1 : call.in[i] # STAR)
    => call.out = Glob(call.in, call.arg)

(* tk_wild_card_match agrees with shell matching for every pattern.       *)
WildcardIsGlob == call.op = "wildcard" => call.out = Glob(call.in, call.arg)

(* conf_doc_load_json gives back the document conf_doc_save_json(_ex)    *)
(* wrote, after a leading comment, at either indent: the same tree of      *)
(* objects, arrays and simple values, the same names in the same order,   *)
(* and each value of the same type.  The writer escapes '"' and '\' in    *)
(* strings and names alike; the reader must undo both escapes in both,    *)
(* and read an int32 back as an int32, INT_MAX and INT_MIN included.      *)
JsonLoadsSaved == call.op = "json" => call.out = call.in

(* tk_memset16 and tk_memset24 store the value into exactly the size      *)
(* pixels from buff, whatever its alignment, through their aligned and    *)
(* unaligned loops, and store nothing else.                                *)
MemsetFillsExactly ==
  /\ call.op = "memset16" =>
       ~call.out.fault /\ call.out.mem = Filled(call.in, call.arg, <<Lo, Hi>>)
  /\ call.op = "memset24" =>
       ~call.out.fault /\ call.out.mem = Filled(call.in, call.arg, Pixel)

(* bits_stream_set and _get accept exactly the indices inside the buffer; *)
(* set changes that bit only and get reads it.                             *)
BitsStreamSemantics ==
  /\ call.op = "bits_set" =>
       /\ (call.ret = "RET_OK") = (call.arg[1] < 8 * Len(call.in))
       /\ Len(call.out) = Len(call.in)
       /\ \A i \in 0 .. 8 * Len(call.in) - 1 :
            Bit(call.out, i) = IF call.ret = "RET_OK" /\ i = call.arg[1]
                               THEN call.arg[2] ELSE Bit(call.in, i)
  /\ call.op = "bits_get" =>
       /\ (call.ret = "RET_OK") = (call.arg < 8 * Len(call.in))
       /\ call.ret = "RET_OK" => call.out = Bit(call.in, call.arg)

(* Bytes stored as bits and read back are 1 for non-zero and 0 for zero   *)
(* where the bit buffer has room, and untouched past its end.              *)
BitsRoundTrip ==
  call.op = "bits_round_trip" =>
    \A i \in DOMAIN call.arg :
      call.out[i] = IF i - 1 < 8 * Len(call.in)
                    THEN (IF call.arg[i] # 0 THEN 1 ELSE 0) ELSE 2

(* tk_memcpy and tk_pixel_copy write exactly the len bytes from dst with  *)
(* the source's bytes, whatever the two alignments: the byte prefix up to *)
(* the boundary, the int, short and byte stores of the switch's fall-     *)
(* through chains and the memcpy fallback together, with no store or load *)
(* outside the memory and the tiny path's asserts holding.                *)
MemcpyCopies ==
  call.op = "memcpy" =>
    LET d == call.in[1]
        src == call.in[2]
    IN /\ ~call.out.m.fault
       /\ call.out.aligned
       /\ call.out.m.mem = [x \in Addrs |-> IF d <= x /\ x < d + call.arg THEN src + (x - d) ELSE x]

(* tk_str_trim_left and tk_str_trim_right remove exactly the leading,     *)
(* respectively trailing, characters of chars: the left one by moving the *)
(* rest with its terminator, the right one by walking p down from         *)
(* str + strlen(str) - 1, the empty string included.                      *)
TrimStrips ==
  LET lead(t, cs) == {k \in 0 .. Len(t) : \A j \in 1 .. k : t[j] \in cs}
      trail(t, cs) == {k \in 0 .. Len(t) : \A j \in k + 1 .. Len(t) : t[j] \in cs}
  IN /\ call.op = "trim_left" =>
          call.out.text = SubSeq(call.in, Max(lead(call.in, call.arg)) + 1, Len(call.in))
     /\ call.op = "trim_right" =>
          call.out.text = SubSeq(call.in, 1, Min(trail(call.in, call.arg)))

(* tk_str_append given the buffer's size as max_len stores only inside    *)
(* it: it appends the whole of s with a terminator when both fit, and     *)
(* otherwise fails with the buffer untouched.                              *)
AppendFits ==
  call.op = "append" =>
    LET t == call.in[1]
        n == call.in[2]
    IN /\ ~call.out.fault
       /\ IF Len(t) + Len(call.arg) < n
          THEN call.ret = "RET_OK" /\ TextOf(call.out) = t \o call.arg
          ELSE call.ret = "RET_FAIL" /\ call.out = BufferWith(t, n)

(* tk_strncpy_s stores only inside its dst_len buffer and leaves there    *)
(* the longest prefix of src, of at most src_len characters, that fits    *)
(* with its terminator.                                                    *)
StrncpySTruncates ==
  call.op = "strncpy_s" =>
    LET dst_len == call.arg[1]
        keep == {k \in 0 .. Len(call.in) : k <= call.arg[2] /\ k < dst_len}
    IN /\ ~call.out.fault
       /\ TextOf(call.out) = SubSeq(call.in, 1, Max(keep))

(* tk_levelize on ascending ranges returns the level of the first range   *)
(* not entirely below value, and the last level when all are: values      *)
(* inside a range, in a gap, below the first, above the last, and levels  *)
(* with entries sscanf cannot read.                                        *)
LevelizeFindsLevel ==
  call.op = "levelize" =>
    LET ks == {k \in 0 .. Len(call.in) - 1 : call.in[k + 1].ok /\ call.arg <= call.in[k + 1].hi}
    IN call.out = IF ks = {} THEN Len(call.in) - 1 ELSE Min(ks)

(* tk_strtol reads, after spaces and a sign, the longest run of digits of *)
(* its base, when the run has at most ten digits: its value with the sign *)
(* and the end just after it.                                              *)
StrtolParses ==
  call.op = "strtol" =>
    LET t == call.in
        ws == Max({k \in 0 .. Len(t) : \A j \in 1 .. k : t[j] \in {" ", "\t"}})
        from == IF ws < Len(t) /\ t[ws + 1] \in {"+", "-"} THEN ws + 1 ELSE ws
        run == Max({k \in 0 .. Len(t) - from :
                      \A j \in from + 1 .. from + k : DigitOf(t[j], call.arg) >= 0})
        v == FoldLeft(LAMBDA acc, j : acc * call.arg + DigitOf(t[j], call.arg), 0,
                      [i \in 1 .. run |-> from + i])
    IN run <= 10 =>
         /\ call.out.value = IF from > ws /\ t[from] = "-" THEN -v ELSE v
         /\ call.out.end = from + run

(* On formats of %d, %u, %x and literals, whenever C's sscanf would make  *)
(* every conversion it reaches, tk_sscanf_simple makes the same ones with *)
(* the same values and count, and reads nothing past either terminator:   *)
(* str_skip_int, str_skip_xint and tk_strtol must leave the input at the  *)
(* same place for the literal that follows.                               *)
SscanfAgreesWithScanf ==
  call.op = "sscanf" /\ PlainFormat(call.arg) =>
    LET ref == CScan(call.in, call.arg, 0, 0, <<>>)
    IN ref.complete =>
         /\ call.out.vals = ref.vals
         /\ call.out.n = Len(ref.vals)
         /\ ~call.out.overread
(* The layouter and its parameters in a layout call.                      *)
LayoutCall == Configured(call.in[1])
Kids == call.in[2]
LW == call.arg[1]
LH == call.arg[2]
End(r) == r.x + r.w

(* hbox and vbox: the children keep their widths (heights) and get the    *)
(* height (width) of the area inside the margins; they follow each other  *)
(* spacing apart, a row starting at x_margin, ending at layout_w minus    *)
(* x_margin, or centred (within the 1 of integer division) as align_h     *)
(* says.  children_layouter_default_layout computes the offset from the   *)
(* widths summed with a spacing after each, less the one after the last.  *)
BoxLayoutTiles ==
  LET l == LayoutCall
      n == Len(Kids)
      out == call.out
      sp == l.spacing
  IN call.op = "layout" /\ call.ret = "RET_OK" /\ n > 0 =>
       /\ l.rows = 1 /\ l.cols = 0 /\ ~l.rows_is_height /\ ~l.cols_is_width =>
            /\ \A i \in 1 .. n : out[i].y = l.y_margin /\ out[i].h = LH - 2 * l.y_margin
                                 /\ out[i].w = Kids[i].w
            /\ \A i \in 1 .. n - 1 : out[i + 1].x = End(out[i]) + sp
            /\ CASE l.align_h = "right" -> End(out[n]) = LW - l.x_margin
                 [] l.align_h = "center" -> out[1].x - (LW - End(out[n])) \in -1 .. 1
                 [] OTHER -> out[1].x = l.x_margin
       /\ l.cols = 1 /\ l.rows = 0 /\ ~l.rows_is_height /\ ~l.cols_is_width =>
            /\ \A i \in 1 .. n : out[i].x = l.x_margin /\ out[i].w = LW - 2 * l.x_margin
                                 /\ out[i].h = Kids[i].h
            /\ out[1].y = l.y_margin
            /\ \A i \in 1 .. n - 1 : out[i + 1].y = out[i].y + out[i].h + sp

(* grid: the children given a cell never overlap, start inside the        *)
(* layout, and all have one positive size; the others are moved to        *)
(* (0, 0, 0, 0).  With a column count the grid of cols cells a row lies   *)
(* within layout_w, centred in it: the uint8_t c must wrap a row after    *)
(* exactly cols cells, and x_margin be recomputed from the grid's width.  *)
GridCellsDisjoint ==
  LET l == LayoutCall
      out == call.out
      rows == Lines(LH, l.y_margin, l.spacing, l.rows, l.rows_is_height, l.flexible)
      cols == Lines(LW, l.x_margin, l.spacing, l.cols, l.cols_is_width, l.flexible)
      shown == {i \in DOMAIN out : out[i].w > 0}
      cell == out[CHOOSE k \in shown : TRUE]
      Meet(a, b) == a.x < End(b) /\ b.x < End(a) /\ a.y < b.y + b.h /\ b.y < a.y + a.h
  IN call.op = "layout" /\ call.ret = "RET_OK" /\ rows > 0 /\ cols > 0 /\ shown # {} =>
       /\ \A i, j \in shown : i # j => ~Meet(out[i], out[j])
       /\ \A i \in shown : out[i].x < LW /\ out[i].y < LH /\ out[i].w = cell.w /\ out[i].h = cell.h
       /\ \A i \in DOMAIN out \ shown : out[i] = [x |-> 0, y |-> 0, w |-> 0, h |-> 0]
       /\ ~l.cols_is_width =>
            LET left == Min({out[i].x : i \in shown})
                right == LW - left - (cols * cell.w + (cols - 1) * l.spacing)
            IN /\ \A i \in shown : End(out[i]) <= LW - right
               /\ left >= 0 /\ right - left \in 0 .. 1
=============================================================================
