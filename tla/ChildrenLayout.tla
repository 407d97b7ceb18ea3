--------------------------- MODULE ChildrenLayout ---------------------------
(***************************************************************************)
(* The default children layouter (src/src/layouters/                      *)
(* children_layouter_default.c): its parameters as set_param leaves them, *)
(* and its layout of the children of a widget of layout_w x layout_h.     *)
(* A child is a rect [x, y, w, h].  The children are those               *)
(* widget_get_children_for_layout returns, none with a self layouter and  *)
(* the widget without auto_adjust_size: both are widget-framework code    *)
(* outside this repository that may move the children again.              *)
(***************************************************************************)
EXTENDS Integers, Sequences, SequencesExt

\* The 8-bit locals x_margin, y_margin, spacing and c of the layout.
U8(v) == v % 256

\* children_layouter_default_create: a zeroed layouter with keep_disable.
Created ==
  [rows |-> 0, cols |-> 0, rows_is_height |-> FALSE, cols_is_width |-> FALSE,
   x_margin |-> 0, y_margin |-> 0, spacing |-> 0, flexible |-> FALSE,
   keep_disable |-> TRUE, keep_invisible |-> FALSE, align_h |-> "left"]

(* children_layouter_default_set_param(name, v): the switch on the first  *)
(* character of name.  'a' tests the first character of the string and   *)
(* falls through into 'k', whose tests fail for "align_h"; "ki" and "kd"  *)
(* stand for the names 'k' sets keep_invisible and keep_disable by.       *)
SetParam(l, name, v) ==
  CASE name = "w" -> [l EXCEPT !.cols = v, !.cols_is_width = TRUE]
    [] name = "h" -> [l EXCEPT !.rows = v, !.rows_is_height = TRUE]
    [] name = "c" -> [l EXCEPT !.cols = v, !.cols_is_width = FALSE]
    [] name = "r" -> [l EXCEPT !.rows = v, !.rows_is_height = FALSE]
    [] name = "x" -> [l EXCEPT !.x_margin = v]
    [] name = "y" -> [l EXCEPT !.y_margin = v]
    [] name = "m" -> [l EXCEPT !.x_margin = v, !.y_margin = v]
    [] name = "s" -> [l EXCEPT !.spacing = v]
    [] name = "f" -> [l EXCEPT !.flexible = v]
    [] name = "a" -> [l EXCEPT !.align_h = IF v \in {"right", "center"} THEN v ELSE "left"]
    [] name = "ki" -> [l EXCEPT !.keep_invisible = v]
    [] name = "kd" -> [l EXCEPT !.keep_disable = v]
    [] OTHER -> l

\* The layouter a parameter string such as "c=2,r=1,s=4" makes.
Configured(settings) == FoldLeft(LAMBDA l, p : SetParam(l, p[1], p[2]), Created, settings)

\* C's integer division, truncating toward zero.
CDiv(a, b) == IF a >= 0 THEN a \div b ELSE -((-a) \div b)

\* tk_roundi of a / b for a >= 0 and b > 0: half rounded away from zero.
RoundDiv(a, b) == (2 * a + b) \div (2 * b)

(* rows (and cols alike): a row height gives the rows that fit, computed  *)
(* in float and truncated to uint32, at least 1; flexible rounds instead. *)
Lines(size, margin, spacing, param, isSize, flexible) ==
  IF ~isSize THEN param
  ELSE IF ~flexible
       THEN LET k == (size - 2 * margin + spacing) \div (param + spacing)
            IN IF k > 1 THEN k ELSE 1
       ELSE RoundDiv(size - 2 * margin + spacing, param + spacing)

\* The sum of the first k widths (or heights) plus a spacing after each.
Advance(sizes, k, spacing) == FoldLeft(LAMBDA a, i : a + sizes[i] + spacing, 0, [i \in 1 .. k |-> i])

\* Fault variant of HBox: children_w keeps the spacing after the last child.
HBoxNoSpacingFix(l, lw, lh, kids) ==
  LET n == Len(kids)
      xm == U8(l.x_margin)
      ym == U8(l.y_margin)
      sp == U8(l.spacing)
      h == lh - 2 * ym
      w == lw - 2 * xm - (n - 1) * sp
      ws == [i \in 1 .. n |-> kids[i].w]
      children_w == Advance(ws, n, sp)
      xoffset == CASE l.align_h = "right" -> lw - xm - children_w
                   [] l.align_h = "center" -> CDiv(lw - children_w, 2)
                   [] OTHER -> xm
  IN IF ~(h > 0 /\ w > 0) THEN [ret |-> "RET_SKIP", kids |-> kids]
     ELSE [ret |-> "RET_OK",
           kids |-> [i \in 1 .. n |-> [x |-> xoffset + Advance(ws, i - 1, sp), y |-> ym,
                                       w |-> kids[i].w, h |-> h]]]

(* hbox (rows 1, cols 0): children keep their widths and get the height   *)
(* layout_h - 2 y_margin, side by side from an offset set by align_h.     *)
HBox(l, lw, lh, kids) ==
  LET n == Len(kids)
      xm == U8(l.x_margin)
      ym == U8(l.y_margin)
      sp == U8(l.spacing)
      h == lh - 2 * ym
      w == lw - 2 * xm - (n - 1) * sp
      ws == [i \in 1 .. n |-> kids[i].w]
      children_w == Advance(ws, n, sp) - sp
      xoffset == CASE l.align_h = "right" -> lw - xm - children_w
                   [] l.align_h = "center" -> CDiv(lw - children_w, 2)
                   [] OTHER -> xm
  IN IF ~(h > 0 /\ w > 0) THEN [ret |-> "RET_SKIP", kids |-> kids]
     ELSE [ret |-> "RET_OK",
           kids |-> [i \in 1 .. n |-> [x |-> xoffset + Advance(ws, i - 1, sp), y |-> ym,
                                       w |-> kids[i].w, h |-> h]]]

(* vbox (cols 1, rows 0): children keep their heights and get the width   *)
(* layout_w - 2 x_margin, one below the other from y_margin.              *)
VBox(l, lw, lh, kids) ==
  LET n == Len(kids)
      xm == U8(l.x_margin)
      ym == U8(l.y_margin)
      sp == U8(l.spacing)
      w == lw - 2 * xm
      h == lh - 2 * ym - (n - 1) * sp
      hs == [i \in 1 .. n |-> kids[i].h]
  IN IF ~(w > 0 /\ h > 0) THEN [ret |-> "RET_SKIP", kids |-> kids]
     ELSE [ret |-> "RET_OK",
           kids |-> [i \in 1 .. n |-> [x |-> xm, y |-> ym + Advance(hs, i - 1, sp),
                                       w |-> w, h |-> kids[i].h]]]

\* Fault variant of GridLoop: c compared with cols before it is counted.
RECURSIVE GridLoopLateWrap(_, _, _, _, _, _, _)
GridLoopLateWrap(g, lw, lh, i, x, y, c) ==
  IF i > g.n THEN <<>>
  ELSE IF y >= lh \/ x >= lw
  THEN <<[x |-> 0, y |-> 0, w |-> 0, h |-> 0]>> \o GridLoopLateWrap(g, lw, lh, i + 1, x, y, c)
  ELSE LET c1 == U8(c + 1)
           wrap == c = g.cols
           nx == x + g.iw + g.sp
           wrapW == ~wrap /\ g.cols_is_width /\ nx + g.iw > g.w
       IN <<[x |-> x, y |-> y, w |-> g.iw, h |-> g.ih]>>
          \o IF wrap \/ wrapW THEN GridLoopLateWrap(g, lw, lh, i + 1, g.xm, y + g.ih + g.sp, 0)
             ELSE GridLoopLateWrap(g, lw, lh, i + 1, nx, y, c1)

(* The grid loop: a child starting at or past the right or bottom edge is *)
(* moved to (0, 0, 0, 0) and skipped; otherwise it takes the cell at      *)
(* (x, y), and the uint8_t c counts the cells of the row.  With a column  *)
(* width the row also wraps when the next cell would pass w.              *)
RECURSIVE GridLoop(_, _, _, _, _, _, _)
GridLoop(g, lw, lh, i, x, y, c) ==
  IF i > g.n THEN <<>>
  ELSE IF y >= lh \/ x >= lw
  THEN <<[x |-> 0, y |-> 0, w |-> 0, h |-> 0]>> \o GridLoop(g, lw, lh, i + 1, x, y, c)
  ELSE LET c1 == U8(c + 1)
           wrap == c1 = g.cols
           nx == x + g.iw + g.sp
           wrapW == ~wrap /\ g.cols_is_width /\ nx + g.iw > g.w
       IN <<[x |-> x, y |-> y, w |-> g.iw, h |-> g.ih]>>
          \o IF wrap \/ wrapW THEN GridLoop(g, lw, lh, i + 1, g.xm, y + g.ih + g.sp, 0)
             ELSE GridLoop(g, lw, lh, i + 1, nx, y, c1)

(* grid (rows and cols > 0): item sizes from the column width and row     *)
(* height, or from dividing the area, whose margins are then recentred   *)
(* into the uint8_t x_margin and y_margin.                                 *)
Grid(l, lw, lh, kids, rows, cols) ==
  LET n == Len(kids)
      sp == U8(l.spacing)
      xm0 == U8(l.x_margin)
      ym0 == U8(l.y_margin)
      iw == IF l.cols_is_width THEN l.cols ELSE CDiv(lw - 2 * xm0 - (cols - 1) * sp, cols)
      w == IF l.cols_is_width THEN lw ELSE (cols - 1) * sp + cols * iw
      xm == IF l.cols_is_width THEN xm0 ELSE U8((lw - w) \div 2)
      ih == IF l.rows_is_height THEN l.rows ELSE CDiv(lh - 2 * ym0 - (rows - 1) * sp, rows)
      h == IF l.rows_is_height THEN lh ELSE (rows - 1) * sp + rows * ih
      ym == IF l.rows_is_height THEN ym0 ELSE U8((lh - h) \div 2)
      g == [n |-> n, cols |-> cols, iw |-> iw, ih |-> ih, sp |-> sp, xm |-> xm, w |-> w,
            cols_is_width |-> l.cols_is_width]
  IN IF ~(iw > 0 /\ ih > 0) THEN [ret |-> "RET_SKIP", kids |-> kids]
     ELSE [ret |-> "RET_OK", kids |-> GridLoop(g, lw, lh, 1, xm, ym, 0)]

(* children_layouter_default_layout: nothing to do without children; the  *)
(* mode follows from rows and cols; any other pair is logged only.         *)
ChildrenLayoutDefault(l, lw, lh, kids) ==
  LET xm == U8(l.x_margin)
      ym == U8(l.y_margin)
      sp == U8(l.spacing)
      rows == Lines(lh, ym, sp, l.rows, l.rows_is_height, l.flexible)
      cols == Lines(lw, xm, sp, l.cols, l.cols_is_width, l.flexible)
  IN IF Len(kids) < 1 THEN [ret |-> "RET_OK", kids |-> kids]
     ELSE IF rows = 1 /\ cols = 0 THEN HBox(l, lw, lh, kids)
     ELSE IF cols = 1 /\ rows = 0 THEN VBox(l, lw, lh, kids)
     ELSE IF cols > 0 /\ rows > 0 THEN Grid(l, lw, lh, kids, rows, cols)
     ELSE [ret |-> "RET_OK", kids |-> kids]
=============================================================================
