--------------------------- MODULE WindowAnimator ---------------------------
(***************************************************************************)
(* A window animator of src/src/window_animators/window_animator_common.c *)
(* from create to destroy, as the window manager drives it: create,       *)
(* prepare, an update at each frame until one returns RET_DONE, then      *)
(* destroy.  The vtable's draw_curr_window is one of the four              *)
(* window_animator_to_<dir>_draw_curr (slide_right uses to_right) and its *)
(* update_percent is NULL, so the default applies.  time_percent and      *)
(* percent are exact rationals [n, d] here, where the code has float_t;    *)
(* the easing is EASING_CUBIC_OUT of base/easing.c, outside the           *)
(* repository: t - 1 cubed, plus 1.  The window manager, its clock and    *)
(* the canvas are outside the repository too: the clock only moves        *)
(* forward, and a frame is the destination rect drawn for the current     *)
(* window.                                                                 *)
(***************************************************************************)
EXTENDS Integers

CONSTANTS
  Dirs,        \* draw_curr_window variants: "bottom", "top", "left", "right"
  Durations,   \* wa->duration before prepare; 0 is "not given"
  Win,         \* the current window's rect [x, y, w, h]
  StartClock,  \* clock values when the animator is created
  FrameGaps,   \* ms between two frames
  MaxClock     \* the clock is followed up to this value

VARIABLES
  wa,       \* the window_animator_t; phase "none" before create
  clock,    \* time_now_ms of the window manager
  currWin,  \* whether curr_win is still alive
  frame,    \* the dst rect the last update drew for curr_win, NoFrame for none
  painted   \* whether the paint at this clock value has updated the animator

waVars == <<wa, clock, currWin, frame, painted>>

R(n, d) == [n |-> n, d |-> d]
One == R(1, 1)
Zero == R(0, 1)
\* Comparisons, by the numerators alone when the denominators agree.
Geq(a, b) == IF a.d = b.d THEN a.n >= b.n ELSE a.n * b.d >= b.n * a.d
Less(a, b) == ~Geq(a, b)

\* tk_roundi of v * p for v >= 0 and 0 <= p: half rounded away from zero.
RoundTimes(v, p) == (2 * v * p.n + p.d) \div (2 * p.d)

\* easing_cubic_out: (t - 1)^3 + 1.
CubicOut(t) == R(t.d ^ 3 + (t.n - t.d) ^ 3, t.d ^ 3)

\* Fault variant of UpdatePercentDefault: the eased time whether opening or closing.
UpdatePercentDefaultOpenOnly(a) == CubicOut(a.time_percent)

(* window_animator_update_percent_default: the eased time when opening, *)
(* one minus it when closing.                                             *)
UpdatePercentDefault(a) ==
  IF a.open THEN CubicOut(a.time_percent)
  ELSE LET e == CubicOut(a.time_percent) IN R(e.d - e.n, e.d)

(* window_animator_update_percent: the vtable's update_percent (NULL), so  *)
(* the default, then percent clamped to [0, 1].                           *)
UpdatePercent(a) ==
  LET p == UpdatePercentDefault(a)
  IN IF Geq(p, One) THEN One ELSE IF Less(p, Zero) THEN Zero ELSE p

Rect(x, y, w, h) == [x |-> x, y |-> y, w |-> w, h |-> h]

\* Fault variant of DrawCurr: to_top placing the image by percent.
DrawCurrTopByPercent(dir, p) ==
  CASE dir = "top" ->
         LET y == Win.y + RoundTimes(Win.h, p) IN Rect(Win.x, y, Win.w, Win.y + Win.h - y)
    [] dir = "bottom" -> Rect(Win.x, Win.y, Win.w, RoundTimes(Win.h, p))
    [] dir = "left" ->
         LET x == Win.x + RoundTimes(Win.w, R(p.d - p.n, p.d)) IN Rect(x, Win.y, Win.x + Win.w - x, Win.h)
    [] dir = "right" -> Rect(Win.x, Win.y, RoundTimes(Win.w, p), Win.h)

(* window_animator_to_<dir>_draw_curr with the animator cache: the dst    *)
(* rect of the part of the current window's snapshot drawn at percent p.  *)
(* to_bottom and to_right draw tk_roundi(h * p) (w * p) from the window's *)
(* origin; to_top and to_left start tk_roundi(h * (1 - p)) in and draw to *)
(* the far edge.                                                           *)
DrawCurr(dir, p) ==
  CASE dir = "top" ->
         LET y == Win.y + RoundTimes(Win.h, R(p.d - p.n, p.d)) IN Rect(Win.x, y, Win.w, Win.y + Win.h - y)
    [] dir = "bottom" -> Rect(Win.x, Win.y, Win.w, RoundTimes(Win.h, p))
    [] dir = "left" ->
         LET x == Win.x + RoundTimes(Win.w, R(p.d - p.n, p.d)) IN Rect(x, Win.y, Win.x + Win.w - x, Win.h)
    [] dir = "right" -> Rect(Win.x, Win.y, RoundTimes(Win.w, p), Win.h)

\* A draw of an empty rect returns before lcd_draw_image.
NoFrame == Rect(0, 0, 0, 0)
Drawn(r) == IF r.w = 0 \/ r.h = 0 THEN NoFrame ELSE r

\* The animator as window_animator_create sets it up.
Created(open, dir, dur) ==
  [phase |-> "created", open |-> open, dir |-> dir, duration |-> dur,
   start_time |-> 0, time_percent |-> Zero, percent |-> Zero, ret |-> "none"]

-----------------------------------------------------------------------------
WAInit ==
  /\ wa = [Created(FALSE, "right", 0) EXCEPT !.phase = "none"]
  /\ clock \in StartClock
  /\ currWin = TRUE
  /\ frame = NoFrame
  /\ painted = FALSE

(* window_animator_create: a zeroed animator with its vtable, open and the *)
(* cubic-out easing; the creator's args may give a duration.              *)
Create(open, dir, dur) ==
  /\ wa.phase = "none"
  /\ wa' = Created(open, dir, dur)
  /\ UNCHANGED <<clock, currWin, frame, painted>>

\* window_animator_prepare: the duration defaults to 500 ms.
Prepare ==
  /\ wa.phase = "created"
  /\ wa' = [wa EXCEPT !.phase = "running", !.duration = IF @ # 0 THEN @ ELSE 500]
  /\ UNCHANGED <<clock, currWin, frame, painted>>

(* The clock between two paints of the window manager, each of which      *)
(* updates the animator once; followed only while an animation runs, as   *)
(* no step of the animator reads it otherwise.                             *)
Tick(gap) ==
  /\ wa.phase = "running" /\ wa.ret # "RET_DONE" /\ painted
  /\ clock + gap <= MaxClock
  /\ clock' = clock + gap
  /\ painted' = FALSE
  /\ UNCHANGED <<wa, currWin, frame>>

(* window_animator_update(wa, clock): a start time of 0 is taken as unset *)
(* and replaced by the clock; time_percent is the elapsed share of the    *)
(* duration, at most 1; percent follows, the previous and the current     *)
(* window are drawn, and the result is RET_DONE once time_percent is 1.   *)
Update ==
  /\ wa.phase = "running" /\ wa.ret # "RET_DONE"
  /\ LET start == IF wa.start_time = 0 THEN clock ELSE wa.start_time
         e == clock - start
         tp == IF e >= wa.duration THEN One ELSE R(e, wa.duration)
         a1 == [wa EXCEPT !.start_time = start, !.time_percent = tp]
         p == UpdatePercent(a1)
     IN /\ wa' = [a1 EXCEPT !.percent = p, !.ret = IF Geq(tp, One) THEN "RET_DONE" ELSE "RET_OK"]
        /\ frame' = Drawn(DrawCurr(wa.dir, p))
  /\ painted' = TRUE
  /\ UNCHANGED <<clock, currWin>>

(* window_animator_destroy, by the window manager once an update returned *)
(* RET_DONE: closing also destroys curr_win (close_destroy).               *)
WADestroy ==
  /\ wa.phase = "running" /\ wa.ret = "RET_DONE"
  /\ wa' = [wa EXCEPT !.phase = "destroyed"]
  /\ currWin' = wa.open
  /\ UNCHANGED <<clock, frame, painted>>

WANext ==
  \/ \E open \in BOOLEAN, dir \in Dirs, dur \in Durations : Create(open, dir, dur)
  \/ Prepare
  \/ \E gap \in FrameGaps : Tick(gap)
  \/ Update
  \/ WADestroy

(* The window manager prepares the animator it created and, while it      *)
(* animates, updates it at every paint, destroying it once it is done;    *)
(* its clock moves on between paints.                                      *)
WASpec ==
  /\ WAInit /\ [][WANext]_waVars
  /\ WF_waVars(Prepare) /\ WF_waVars(Update) /\ WF_waVars(WADestroy)
  /\ WF_waVars(\E gap \in FrameGaps : Tick(gap))

-----------------------------------------------------------------------------
(* Properties.                                                             *)

WATypeOK ==
  /\ clock \in 0 .. MaxClock /\ {currWin, painted} \subseteq BOOLEAN
  /\ wa.phase \in {"none", "created", "running", "destroyed"}
  /\ wa.ret \in {"none", "RET_OK", "RET_DONE"}
  /\ frame.w >= 0 /\ frame.h >= 0

Running == wa.phase = "running"

(* From its first frame on, an opening animation never draws less of the *)
(* current window than before, and a closing one never more: between two *)
(* updates time_percent can only grow, and update_percent_default must    *)
(* turn that into a percent that moves one way, whatever the start-time   *)
(* sentinel and the clamps do.                                             *)
PercentMonotone ==
  [][Running /\ wa.ret # "none" =>
       IF wa.open THEN Geq(wa'.percent, wa.percent) ELSE Geq(wa.percent, wa'.percent)]_waVars

\* What the last frame shows when the animation is over: all of the window or none.
Target == IF wa.open THEN Win ELSE NoFrame

(* With the window manager updating at every paint and its clock moving   *)
(* on, every prepared animator reaches RET_DONE and is destroyed, and the *)
(* last frame it drew shows all of an opening window and none of a       *)
(* closing one: time_percent reaches exactly 1 and the rounding of the    *)
(* draw_curr variant takes percent 1 (0) to the whole (empty) rect.        *)
FinishesOnTarget ==
  Running ~> (wa.phase = "destroyed" /\ frame = Target)
=============================================================================
