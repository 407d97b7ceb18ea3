----------------------------- MODULE MCWidgets ------------------------------
(***************************************************************************)
(* TLC instance of four widgets checked in one run: a pages widget, a     *)
(* draggable, a window animator and a list view.  They share no state, so *)
(* rather than interleave them, which would multiply their state spaces,  *)
(* each behaviour picks one of them (which) and steps only that one: every *)
(* behaviour of each is a behaviour here, and the state space is the sum.  *)
(***************************************************************************)
EXTENDS Pages, Draggable, WindowAnimator, ListView, TLC

VARIABLE which

allVars == <<which, ui, dragVars, waVars, lvVars>>

\* Where the pages widget starts when another widget is the one that runs.
WidgetsInit ==
  /\ DragInit /\ WAInit /\ LVInit
  /\ \/ which = "pages" /\ Init
     \/ which \in {"draggable", "animator", "listview"} /\ Init /\ ~ui.loading

WidgetsNext ==
  \/ which = "pages" /\ Next /\ UNCHANGED <<which, dragVars, waVars, lvVars>>
  \/ which = "draggable" /\ DragNext /\ UNCHANGED <<which, ui, waVars, lvVars>>
  \/ which = "animator" /\ WANext /\ UNCHANGED <<which, ui, dragVars, lvVars>>
  \/ which = "listview" /\ LVNext /\ UNCHANGED <<which, ui, dragVars, waVars>>

PagesStep(A) == which = "pages" /\ A /\ UNCHANGED <<which, dragVars, waVars, lvVars>>
AnimatorStep(A) == which = "animator" /\ A /\ UNCHANGED <<which, ui, dragVars, lvVars>>

(* The pages idles run fairly (FairSpec of Pages); the draggable's events *)
(* and the list view's children changes come from the user and the       *)
(* application and get no fairness; the window manager's paints drive the *)
(* animator as in WASpec.                                                  *)
WidgetsSpec ==
  /\ WidgetsInit /\ [][WidgetsNext]_allVars
  /\ WF_allVars(PagesStep(IdleInit))
  /\ \A k \in {"focused", "page_focused"} : WF_allVars(PagesStep(IdleFocus(k)))
  /\ WF_allVars(AnimatorStep(Prepare)) /\ WF_allVars(AnimatorStep(Update))
  /\ WF_allVars(AnimatorStep(WADestroy))
  /\ WF_allVars(AnimatorStep(\E gap \in FrameGaps : Tick(gap)))

(* IdlesRetire of Pages in the behaviours where the pages widget runs:    *)
(* every idle that pages_on_added or set_active registers with the main   *)
(* loop is eventually run and removed.                                     *)
PagesIdlesRetire == which = "pages" => IdlesRetire

\* A parent of 4 x 4 in a 5 x 5 parent, a window of 10 x 10 in a screen of
\* 11 x 10 (the same height: no vertical clamp), and pointer events at two
\* points, so that a drag of the parent is clamped on both axes.
MCSize == [parent |-> [w |-> 4, h |-> 4], window |-> [w |-> 10, h |-> 10]]
MCContainer == [parent |-> [w |-> 5, h |-> 5], window |-> [w |-> 11, h |-> 10]]
MCScreen == [w |-> 11, h |-> 10]
MCInitPos == [parent |-> [x |-> 1, y |-> 1], window |-> [x |-> 0, y |-> 0],
              native |-> [x |-> 0, y |-> 0]]
MCPoints == {[x |-> 0, y |-> 0], [x |-> 4, y |-> 2]}
\* set_prop of the properties that choose what moves and how it is bounded.
MCPropCalls ==
  {<<n, v>> : n \in {"drag_window", "allow_out_of_screen", "drag_native_window"}, v \in BOOLEAN}

\* The current window of the animator: odd sizes, so that rounding matters.
MCWin == [x |-> 2, y |-> 1, w |-> 7, h |-> 5]
=============================================================================
