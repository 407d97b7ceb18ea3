----------------------------- MODULE Draggable ------------------------------
(***************************************************************************)
(* The draggable widget (src/src/ext_widgets/features/draggable.c).  It   *)
(* sits in a parent widget inside a window and listens to the parent's    *)
(* pointer events before the parent's children do: a press saves where   *)
(* the target is, a move drags the target by the pointer's offset from    *)
(* the press, clamped to bounds, and a release ends the drag.  The target *)
(* is the parent or, with drag_window or drag_parent, the window; with    *)
(* drag_native_window the native window moves instead.                     *)
(* widget_grab, widget_move, widget_set_enable and the native window are  *)
(* widget-framework code outside this repository: a grab is counted, a    *)
(* move sets the position, and the application may enable or disable the *)
(* draggable at any time.                                                  *)
(***************************************************************************)
EXTENDS Integers

CONSTANTS
  UNSPEC,       \* DRAGGABLE_UNSPECIFIED_NUM
  PropCalls,    \* the <<name, value>> pairs set_prop is called with
  Points,       \* pointer positions of events, [x, y] records
  Size,         \* w and h of the parent ("parent") and the window ("window")
  Container,    \* w and h of each target's own parent widget
  Screen,       \* w and h of the native window's rect
  InitPos,      \* where the two targets and the native window start
  MaxCoord,     \* the largest |x| or |y| a position is followed to
  MaxGrab       \* the largest grab count followed

Targets == {"parent", "window"}

VARIABLES
  d,        \* the draggable_t fields
  enable,   \* widget->enable
  pos,      \* x and y of each target
  nwpos,    \* x and y of the native window
  button,   \* the physical button, so that presses and releases alternate
  grab,     \* the grandparent's grab count of the parent (widget_grab)
  last      \* the last event the draggable dispatched, and whether it aborted a press

dragVars == <<d, enable, pos, nwpos, button, grab, last>>

Pt(x, y) == [x |-> x, y |-> y]


(* draggable_get_target: the window with drag_window; otherwise from the   *)
(* parent up drag_parent levels, stopping at the window.                   *)
GetTarget(s) == IF s.drag_window \/ s.drag_parent > 0 THEN "window" ELSE "parent"

\* tk_clampi.
Clamp(v, lo, hi) == IF v < lo THEN lo ELSE IF v > hi THEN hi ELSE v

(* draggable_move_target: min and max of each axis from the bound if set, *)
(* else from the screen with allow_out_of_screen, else from the target's   *)
(* parent; a coordinate is clamped only when min < max.                   *)
Limits(s, t) ==
  LET sz == Size[t]
  IN [minx |-> IF s.left # UNSPEC THEN s.left
               ELSE IF s.allow_out_of_screen THEN 1 - sz.w ELSE 0,
      miny |-> IF s.top # UNSPEC THEN s.top
               ELSE IF s.allow_out_of_screen THEN 1 - sz.h ELSE 0,
      maxx |-> IF s.right # UNSPEC THEN s.right - sz.w
               ELSE IF s.allow_out_of_screen THEN Screen.w - 1 ELSE Container[t].w - sz.w,
      maxy |-> IF s.bottom # UNSPEC THEN s.bottom - sz.h
               ELSE IF s.allow_out_of_screen THEN Screen.h - 1 ELSE Container[t].h - sz.h]

\* Fault variant of MoveTarget: x clamped against max_x + 1.
MoveTargetPastMax(s, t, x, y) ==
  LET l == Limits(s, t)
  IN Pt(IF l.minx < l.maxx THEN Clamp(x, l.minx, l.maxx + 1) ELSE x,
        IF l.miny < l.maxy THEN Clamp(y, l.miny, l.maxy) ELSE y)

MoveTarget(s, t, x, y) ==
  LET l == Limits(s, t)
  IN Pt(IF l.minx < l.maxx THEN Clamp(x, l.minx, l.maxx) ELSE x,
        IF l.miny < l.maxy THEN Clamp(y, l.miny, l.maxy) ELSE y)

-----------------------------------------------------------------------------
DragInit ==
  /\ d = [top |-> UNSPEC, bottom |-> UNSPEC, left |-> UNSPEC, right |-> UNSPEC,
          vertical_only |-> FALSE, horizontal_only |-> FALSE, allow_out_of_screen |-> FALSE,
          drag_window |-> FALSE, drag_native_window |-> FALSE, drag_parent |-> 0,
          pressed |-> FALSE, down |-> Pt(0, 0), saved |-> Pt(0, 0)]
  /\ enable = TRUE
  /\ pos = [t \in Targets |-> InitPos[t]]
  /\ nwpos = InitPos["native"]
  /\ button = FALSE
  /\ grab = 0
  /\ last = [ev |-> "none", abort |-> FALSE]

(* draggable_set_prop and the draggable_set_ setter it calls: each stores *)
(* its value in the field of the property's name; other names are not     *)
(* found and change nothing.                                              *)
SetProp(name, v) ==
  /\ d' = IF name \in DOMAIN d \ {"pressed", "down", "saved"} THEN [d EXCEPT ![name] = v] ELSE d
  /\ UNCHANGED <<enable, pos, nwpos, button, grab, last>>

\* widget_set_enable by the application.
SetEnable ==
  /\ enable' = ~enable
  /\ UNCHANGED <<d, pos, nwpos, button, grab, last>>

(* draggable_on_parent_pointer_down: when enabled, pressed, the press      *)
(* point and the position of what will move are saved, the parent grabs  *)
(* the pointer and EVT_DRAG_START is dispatched.                          *)
PointerDown(p) ==
  /\ ~button
  /\ button' = TRUE
  /\ IF enable
     THEN /\ grab < MaxGrab
          /\ d' = [d EXCEPT !.pressed = TRUE, !.down = p,
                            !.saved = IF d.drag_native_window THEN nwpos ELSE pos[GetTarget(d)]]
          /\ grab' = grab + 1
          /\ last' = [ev |-> "start", abort |-> FALSE]
     ELSE UNCHANGED <<d, grab, last>>
  /\ UNCHANGED <<enable, pos, nwpos>>

(* draggable_on_parent_pointer_move, with or without the button held:     *)
(* when enabled and pressed, the saved position plus the pointer's offset *)
(* (an axis kept with vertical_only or horizontal_only) goes to the       *)
(* native window unclamped or to draggable_move_target; EVT_DRAG follows. *)
PointerMove(p) ==
  LET x == d.saved.x + (IF d.vertical_only THEN 0 ELSE p.x - d.down.x)
      y == d.saved.y + (IF d.horizontal_only THEN 0 ELSE p.y - d.down.y)
      t == GetTarget(d)
      np == IF d.drag_native_window THEN Pt(x, y) ELSE MoveTarget(d, t, x, y)
  IN /\ IF enable /\ d.pressed
        THEN /\ np.x \in -MaxCoord .. MaxCoord /\ np.y \in -MaxCoord .. MaxCoord
             /\ IF d.drag_native_window
                THEN nwpos' = np /\ UNCHANGED pos
                ELSE pos' = [pos EXCEPT ![t] = np] /\ UNCHANGED nwpos
             /\ last' = [ev |-> "drag", abort |-> FALSE]
        ELSE UNCHANGED <<pos, nwpos, last>>
     /\ UNCHANGED <<d, enable, button, grab>>

\* Fault variant of PointerUp: pressed is left set.
PointerUpKeepsPressed ==
  /\ button
  /\ button' = FALSE
  /\ IF enable
     THEN /\ grab' = IF grab > 0 THEN grab - 1 ELSE 0
          /\ last' = [ev |-> "end", abort |-> FALSE]
     ELSE UNCHANGED <<grab, last>>
  /\ UNCHANGED <<d, enable, pos, nwpos>>

(* draggable_on_parent_pointer_up: when enabled, pressed is cleared; a    *)
(* target more than 5 away from the saved position on an axis makes it    *)
(* dispatch EVT_POINTER_DOWN_ABORT to the parent; the grab is released    *)
(* and EVT_DRAG_END dispatched.                                            *)
PointerUp ==
  /\ button
  /\ button' = FALSE
  /\ IF enable
     THEN LET t == pos[GetTarget(d)]
              far == t.x - d.saved.x > 5 \/ d.saved.x - t.x > 5 \/
                     t.y - d.saved.y > 5 \/ d.saved.y - t.y > 5
          IN /\ d' = [d EXCEPT !.pressed = FALSE]
             /\ grab' = IF grab > 0 THEN grab - 1 ELSE 0
             /\ last' = [ev |-> "end", abort |-> far]
     ELSE UNCHANGED <<d, grab, last>>
  /\ UNCHANGED <<enable, pos, nwpos>>

DragNext ==
  \/ \E c \in PropCalls : SetProp(c[1], c[2])
  \/ SetEnable
  \/ \E p \in Points : PointerDown(p) \/ PointerMove(p)
  \/ PointerUp

DragSpec == DragInit /\ [][DragNext]_dragVars

-----------------------------------------------------------------------------
(* Properties.                                                             *)

DragTypeOK ==
  /\ d.pressed \in BOOLEAN /\ d.down \in Points
  /\ d.saved \in [x : -MaxCoord .. MaxCoord, y : -MaxCoord .. MaxCoord]
  /\ {enable, button} \subseteq BOOLEAN /\ grab \in 0 .. MaxGrab
  /\ last \in [ev : {"none", "start", "drag", "end"}, abort : BOOLEAN]

(* A drag is bracketed: while the draggable holds a press (pressed), the  *)
(* last event it dispatched is its EVT_DRAG_START or an EVT_DRAG of that   *)
(* drag, and the parent's grab taken by pointer_down is still held; an     *)
(* up, whatever the enable state, target or properties since the press,   *)
(* must not leave pressed behind after its EVT_DRAG_END.                   *)
DragBracketed ==
  d.pressed => last.ev \in {"start", "drag"} /\ grab >= 1

\* The bounds draggable_move_target computes when no property overrides them.
DefaultBounds(s) ==
  /\ {s.left, s.right, s.top, s.bottom} = {UNSPEC}
  /\ ~s.allow_out_of_screen /\ ~s.drag_native_window

Inside(t, q) ==
  q.x \in 0 .. Container[t].w - Size[t].w /\ q.y \in 0 .. Container[t].h - Size[t].h

(* A drag with the default bounds leaves a target smaller than its parent *)
(* entirely inside that parent: pointer_move adds the pointer's offset to *)
(* the position saved at the press, which may be another target's after a *)
(* set_prop of drag_window or drag_parent, and draggable_move_target must  *)
(* clamp the sum on both axes against the parent's size less the target's.*)
DragStaysInside ==
  [][\A t \in Targets :
       DefaultBounds(d) /\ Size[t].w < Container[t].w /\ Size[t].h < Container[t].h
       /\ pos'[t] # pos[t] => Inside(t, pos'[t])]_dragVars
=============================================================================
