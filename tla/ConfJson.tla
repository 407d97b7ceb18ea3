------------------------------ MODULE ConfJson ------------------------------
(***************************************************************************)
(* The JSON reader and writer of conf_doc trees                            *)
(* (src/src/conf_io/conf_json.c) as pure operators.  Text is a sequence of *)
(* one-character strings, read through Char, so that the cell at its       *)
(* length is the terminator of the C string the reader is given.  A node   *)
(* is a record: its type ("obj", "arr" or "simple"), its value and its     *)
(* children, a sequence of <<name, node>> in order (array children are     *)
(* named "0", "1", ... by the reader's "%u").  conf_node.c and str.c are       *)
(* outside the repository: a new node is an object without a value,        *)
(* conf_node_set_value makes it simple and fails on no node, children are  *)
(* appended in order, str_append_json_str writes the string in quotes with *)
(* '"' and '\' escaped, and str_unescape undoes a backslash escape.  An    *)
(* integer is kept without its width (int32 or int64): the writer formats  *)
(* both the same.  Every loop and recursion spends one unit of fuel; a     *)
(* reader that runs out of it is reported as "hang".                       *)
(***************************************************************************)
EXTENDS Integers, Sequences, SequencesExt, StrEdit

Quote == "\""
BSlash == "\\"
\* tk_isspace.
JsonSpaces == {" ", "\t", "\r", "\n"}

NewNode == [type |-> "obj", val |-> [t |-> "none"], kids |-> <<>>]
Res(ret, cur, node) == [ret |-> ret, cur |-> cur, node |-> node]
\* conf_node_set_value on the current node, NULL before the root exists.
SetValue(cur, node, v) ==
  IF node = NULL THEN Res("fail", cur, node)
  ELSE Res("ok", cur, [node EXCEPT !.type = "simple", !.val = v])
AddKid(node, name, kid) == [node EXCEPT !.kids = Append(@, <<name, kid>>)]
SetLastKid(node, kid) == [node EXCEPT !.kids[Len(node.kids)][2] = kid]

\* str_unescape: a backslash and the character after it become that character.
RECURSIVE Unescape(_)
Unescape(s) ==
  IF s = <<>> THEN <<>>
  ELSE IF Head(s) = BSlash /\ Len(s) > 1 THEN <<s[2]>> \o Unescape(Tail(Tail(s)))
  ELSE <<Head(s)>> \o Unescape(Tail(s))

\* The text d[from + 1] .. d[to] between two 0-based cursors.
Between(d, from, to) == SubSeq(d, from + 1, to)

-----------------------------------------------------------------------------
(* The cursor movers.                                                       *)

(* conf_json_skip_to_char: to the next c, stepping over a backslash and    *)
(* the character after it; it succeeds when the cursor is inside the text. *)
RECURSIVE SkipToChar(_, _, _)
SkipToChar(d, cur, c) ==
  IF cur >= Len(d) THEN cur
  ELSE IF d[cur + 1] = BSlash THEN SkipToChar(d, cur + 2, c)
  ELSE IF d[cur + 1] = c THEN cur
  ELSE SkipToChar(d, cur + 1, c)

\* conf_json_skip_to_value_end: to the next ',', '}' or ']', or the end.
RECURSIVE SkipToValueEnd(_, _)
SkipToValueEnd(d, cur) ==
  IF cur >= Len(d) \/ d[cur + 1] \in {",", "}", "]"} THEN cur ELSE SkipToValueEnd(d, cur + 1)

\* conf_json_skip_spaces.
RECURSIVE SkipSpaces(_, _)
SkipSpaces(d, cur) ==
  IF cur < Len(d) /\ d[cur + 1] \in JsonSpaces THEN SkipSpaces(d, cur + 1) ELSE cur

(* The for loop of conf_json_skip_comment from p while p + 1 < size: a     *)
(* block comment ends after "*/", a line comment after "\r", "\r\n" or    *)
(* "\n"; otherwise the loop stops at p + 1 = size.                         *)
RECURSIVE CommentEnd(_, _, _)
CommentEnd(d, p, block) ==
  IF p + 1 >= Len(d) THEN p
  ELSE LET c == d[p + 1]
           n == d[p + 2]
       IN IF block THEN (IF c = "*" /\ n = "/" THEN p + 2 ELSE CommentEnd(d, p + 1, block))
          ELSE IF c = "\r" THEN (IF n = "\n" THEN p + 2 ELSE p + 1)
          ELSE IF c = "\n" THEN p + 1
          ELSE CommentEnd(d, p + 1, block)

(* conf_json_skip_comment: spaces are skipped, then a comment starting     *)
(* with two characters "/*" or "//" is skipped and RET_OK returned.        *)
SkipComment(d, cur) ==
  LET s == SkipSpaces(d, cur)
  IN IF s + 1 < Len(d) /\ d[s + 1] = "/" /\ d[s + 2] \in {"*", "/"}
     THEN [ok |-> TRUE, cur |-> CommentEnd(d, s + 2, d[s + 2] = "*")]
     ELSE [ok |-> FALSE, cur |-> s]

\* conf_json_skip_all_comments: comments until none, or the end of the text.
RECURSIVE SkipAllComments(_, _)
SkipAllComments(d, cur) ==
  LET r == SkipComment(d, cur)
  IN IF r.ok /\ r.cur # Len(d) THEN SkipAllComments(d, r.cur) ELSE r.cur

\* tk_atol on decimal text and the "0x" and '#' hexadecimal prefixes.
TkAtol(s) ==
  IF Char(s, 0) = "0" /\ Char(s, 1) \in {"x", "X"} THEN TkStrtol(Tail(Tail(s)), 16).value
  ELSE IF Char(s, 0) = "#" THEN TkStrtol(Tail(s), 16).value
  ELSE TkStrtol(s, 10).value

\* The while loop of conf_json_parse_name: to the next quote, escaped or not.
RECURSIVE NameEnd(_, _)
NameEnd(d, i) == IF i < Len(d) /\ d[i + 1] # Quote THEN NameEnd(d, i + 1) ELSE i

(* conf_json_parse_name: from the next quote up to the following one, the  *)
(* name is unescaped and the cursor goes past that quote.                  *)
ParseName(d, cur) ==
  LET s == SkipToChar(d, cur, Quote)
      i == NameEnd(d, s + 1)
  IN IF s >= Len(d) THEN [ok |-> FALSE, cur |-> s]
     ELSE [ok |-> TRUE, cur |-> i + 1, name |-> Unescape(Between(d, s + 1, i))]
\* str_append_int and str_append_int64: the decimal digits, '-' first when negative.
RECURSIVE DecDigitsOf(_)
DecDigitsOf(n) ==
  IF n < 10 THEN <<DecDigits[n + 1]>> ELSE DecDigitsOf(n \div 10) \o <<DecDigits[(n % 10) + 1]>>
DecimalText(n) == IF n < 0 THEN <<"-">> \o DecDigitsOf(-n) ELSE DecDigitsOf(n)

-----------------------------------------------------------------------------
(* The reader.  Each parser returns [ret, cur, node]: "ok", "fail" (any    *)
(* error return) or "hang", the cursor, and the current node as far as it *)
(* was built; an error return stops every caller.                          *)

\* conf_json_parse_string: the text between the next two unescaped quotes, unescaped.
ParseString(d, cur, node) ==
  LET s == SkipToChar(d, cur, Quote)
      e == SkipToChar(d, s + 1, Quote)
  IN IF s >= Len(d) \/ e >= Len(d) THEN Res("fail", e, node)
     ELSE SetValue(SkipToValueEnd(d, e), node, [t |-> "str", s |-> Unescape(Between(d, s + 1, e))])

\* conf_json_parse_bool: true for 't' or 'T', then to the value's end.
ParseBool(d, cur, node) ==
  SetValue(SkipToValueEnd(d, cur), node, [t |-> "bool", b |-> Char(d, cur) \in {"t", "T"}])

\* An integer read as value_set_int32 when INT_MIN < n < INT_MAX, else as value_set_int64.
IntValue(n) ==
  IF n < 2147483647 /\ n > -2147483647 - 1 THEN [t |-> "int", n |-> n] ELSE [t |-> "int64", n |-> n]

(* conf_json_parse_number: the text up to the value's end; with no '.' or *)
(* 'E' it is an integer by tk_atol, else a double (kept as its text).      *)
ParseNumber(d, cur, node) ==
  LET e == SkipToValueEnd(d, cur)
      s == Between(d, cur, e)
  IN SetValue(e, node, IF "." \in ToSet(s) \/ "E" \in ToSet(s) THEN [t |-> "double", s |-> s]
                       ELSE IntValue(TkAtol(s)))

\* conf_json_parse_null_string: a NULL string, then to the value's end.
ParseNullString(d, cur, node) == SetValue(SkipToValueEnd(d, cur), node, [t |-> "str", s |-> NULL])

IsNull(d, cur) == [k \in 1 .. 4 |-> Char(d, cur + k - 1)] = <<"n", "u", "l", "l">>

RECURSIVE ParseValue(_, _, _, _), ObjectLoop(_, _, _, _), ArrayLoop(_, _, _, _, _)

(* conf_json_parse_object from the cursor at '{' (a comment before it is   *)
(* skipped first): the cursor moves past it into the member loop.          *)
ParseObject(d, cur, node, f) == ObjectLoop(d, SkipAllComments(d, cur) + 1, node, f)

(* The while loop of conf_json_parse_object: after comments, '}' ends it; *)
(* otherwise a name node is appended and becomes current, the cursor goes *)
(* past the next ':', the value is parsed into it, and after comments '}'  *)
(* ends the loop while ',' or any other character is stepped over.         *)
ObjectLoop(d, cur, node, f) ==
  IF f = 0 THEN Res("hang", cur, node)
  ELSE IF cur >= Len(d) THEN Res("ok", cur, node)
  ELSE LET c0 == SkipAllComments(d, cur)
           nm == ParseName(d, c0)
           n1 == AddKid(node, nm.name, NewNode)
           col == SkipToChar(d, nm.cur, ":")
           v == ParseValue(d, col + 1, NewNode, f - 1)
           n2 == SetLastKid(n1, v.node)
           c2 == SkipAllComments(d, v.cur)
       IN IF Char(d, c0) = "}" THEN Res("ok", c0 + 1, node)
          ELSE IF ~nm.ok THEN Res("fail", nm.cur, node)
          ELSE IF col >= Len(d) THEN Res("fail", col, n1)
          ELSE IF v.ret # "ok" THEN Res(v.ret, v.cur, n2)
          ELSE IF Char(d, c2) = "}" THEN Res("ok", c2 + 1, n2)
          ELSE ObjectLoop(d, c2 + 1, n2, f - 1)

(* conf_json_parse_array from the cursor at '[': past it and comments, ']' *)
(* ends an empty array; otherwise the element loop starts with index 0.    *)
ParseArray(d, cur, node, f) ==
  LET c0 == SkipAllComments(d, cur + 1)
  IN IF Char(d, c0) = "]" THEN Res("ok", c0 + 1, node) ELSE ArrayLoop(d, c0, node, 0, f)

(* The while loop of conf_json_parse_array: a node named i is appended and *)
(* the element parsed into it; after comments ']' ends the loop and ','    *)
(* is stepped over, while any other character is left under the cursor.   *)
ArrayLoop(d, cur, node, i, f) ==
  IF f = 0 THEN Res("hang", cur, node)
  ELSE IF cur >= Len(d) THEN Res("ok", cur, node)
  ELSE LET v == ParseValue(d, cur, NewNode, f - 1)
           n1 == AddKid(node, DecimalText(i), v.node)
           c2 == SkipAllComments(d, v.cur)
       IN IF v.ret # "ok" THEN Res(v.ret, v.cur, n1)
          ELSE IF Char(d, c2) = "]" THEN Res("ok", c2 + 1, n1)
          ELSE IF Char(d, c2) = "," THEN ArrayLoop(d, c2 + 1, n1, i + 1, f - 1)
          ELSE ArrayLoop(d, c2, n1, i + 1, f - 1)

(* conf_json_parse_value into node (NULL while the document has no root): *)
(* after comments, the terminator or the end stops it; '{' or '[' makes    *)
(* the root if there is none and parses an object or an array; a quote, a *)
(* 't' or 'f', "null" or anything else not a space is a string, a bool, a  *)
(* NULL string or a number; a space is stepped over.                       *)
ParseValue(d, cur, node, f) ==
  IF f = 0 THEN Res("hang", cur, node)
  ELSE IF cur >= Len(d) THEN Res("ok", cur, node)
  ELSE LET c0 == SkipAllComments(d, cur)
           c == Char(d, c0)
           n == IF node = NULL THEN NewNode ELSE node
       IN IF c = NUL \/ c0 = Len(d) THEN Res("ok", c0, node)
          ELSE IF c = "[" THEN ParseArray(d, c0, [n EXCEPT !.type = "arr"], f - 1)
          ELSE IF c = "{" THEN ParseObject(d, c0, n, f - 1)
          ELSE IF c \in JsonSpaces THEN ParseValue(d, c0 + 1, node, f - 1)
          ELSE IF c = Quote THEN ParseString(d, c0, node)
          ELSE IF c \in {"t", "f"} THEN ParseBool(d, c0, node)
          ELSE IF c = "n" /\ IsNull(d, c0) THEN ParseNullString(d, c0, node)
          ELSE ParseNumber(d, c0, node)

(* conf_doc_load_json: the document's root after conf_json_parse_value     *)
(* from the start with no root, whatever it returned; NULL if no root was  *)
(* made; "hang" if the reader does not return.                             *)
LoadJson(d) ==
  LET r == ParseValue(d, 0, NULL, 2 * Len(d) + 2)
  IN IF r.ret = "hang" THEN "hang" ELSE r.node
-----------------------------------------------------------------------------
(* The writer, with indent 0 (conf_doc_save_json_ex) or 4                  *)
(* (conf_doc_save_json); str_append fails only for lack of memory, which   *)
(* the model leaves out.                                                   *)

\* str_append_json_str: the string in quotes, '"' and '\' preceded by a backslash.
JsonStr(s) ==
  <<Quote>> \o FoldLeft(LAMBDA acc, c : acc \o (IF c \in {Quote, BSlash} THEN <<BSlash, c>> ELSE <<c>>),
                        <<>>, s)
  \o <<Quote>>

(* conf_json_save_node_value_simple: true or false for a bool, the quoted *)
(* string, and an integer (the int32 one through the double and            *)
(* str_append_int, the int64 one through str_append_int64) in decimal.    *)
(* Doubles, written "%.4f", are not followed.                             *)
SaveSimple(v) ==
  CASE v.t = "bool" -> IF v.b THEN <<"t", "r", "u", "e">> ELSE <<"f", "a", "l", "s", "e">>
    [] v.t = "str" -> JsonStr(v.s)
    [] v.t \in {"int", "int64"} -> DecimalText(v.n)

\* conf_json_write_indent: level * indent spaces.
WriteIndent(level, indent) == [k \in 1 .. level * indent |-> " "]

\* The separator after a member or element, and the closing line before the bracket.
Sep(indent) == IF indent > 0 THEN <<",", "\n">> ELSE <<",">>
Closing(level, indent) == IF indent > 0 THEN <<"\n">> \o WriteIndent(level, indent) ELSE <<>>
Opening(b, indent) == IF indent > 0 THEN <<b, "\n">> ELSE <<b>>

RECURSIVE SaveNodeValue(_, _, _)

(* conf_json_save_node: the indent, the quoted name and " : " (":" with    *)
(* indent 0), then the value.                                              *)
SaveNode(name, node, level, indent) ==
  IF indent > 0
  THEN WriteIndent(level, indent) \o JsonStr(name) \o <<" ", ":", " ">> \o SaveNodeValue(node, level, indent)
  ELSE JsonStr(name) \o <<":">> \o SaveNodeValue(node, level, indent)

(* conf_json_save_node_children_object and _array: the opening bracket,    *)
(* the children (a member as a named node, an element indented and then   *)
(* its value) with a separator between two of them, the closing line and   *)
(* the closing bracket.                                                    *)
SaveChildren(node, level, indent) ==
  LET ks == node.kids
      arr == node.type = "arr"
      item(k) == IF arr THEN WriteIndent(level + 1, indent) \o SaveNodeValue(ks[k][2], level + 1, indent)
                 ELSE SaveNode(ks[k][1], ks[k][2], level + 1, indent)
      body == FoldLeft(LAMBDA acc, k : acc \o (IF k > 1 THEN Sep(indent) ELSE <<>>) \o item(k),
                       <<>>, [k \in 1 .. Len(ks) |-> k])
  IN Opening(IF arr THEN "[" ELSE "{", indent) \o body \o Closing(level, indent)
     \o <<IF arr THEN "]" ELSE "}">>

\* conf_json_save_node_value: the children of an object or array, else the simple value.
SaveNodeValue(node, level, indent) ==
  IF node.type \in {"obj", "arr"} THEN SaveChildren(node, level, indent) ELSE SaveSimple(node.val)

\* conf_doc_save_json_ex on a document with this root.
SaveJson(root, indent) == SaveChildren(root, 0, indent)
=============================================================================
