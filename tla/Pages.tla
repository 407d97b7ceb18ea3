------------------------------- MODULE Pages -------------------------------
(***************************************************************************)
(* The pages widget (src/src/widgets/pages.c): children of which exactly  *)
(* the active one is shown (pages.h: "only one page is active, and only   *)
(* the active page is shown").  Modelled: the children sequence, the      *)
(* active index, the visibility of each page, the PAGE_CHANGED events a   *)
(* call dispatches, and the three idle callbacks pages registers with the *)
(* main loop.  The widget framework around it (widget_add_child,          *)
(* widget_remove_child, the loader) is outside this repository; its        *)
(* contract is modelled as the order of calls pages.c relies on: a child  *)
(* is appended, on_add_child runs, EVT_WIDGET_ADD_CHILD is dispatched; for *)
(* a removal on_remove_child runs while the child is still in the list,   *)
(* then it is removed, then EVT_WIDGET_REMOVE_CHILD is dispatched.         *)
(***************************************************************************)
EXTENDS Integers, Sequences, FiniteSets, SequencesExt

CONSTANTS
  PageIds,      \* the child widgets (model values)
  NoPage,       \* NULL returned by widget_get_child
  VetoMayStop   \* a VALUE_WILL_CHANGE handler on the pages may return RET_STOP

ASSUME VetoMayStop \in BOOLEAN /\ NoPage \notin PageIds

\* pages->active is a uint32_t initialised to 0xffffffff; the model keeps
\* its int32_t reading (pages_on_remove_child casts it), where that value is -1.
NoActive == -1

IdleKinds == {"init", "focused", "page_focused"}

\* The outcomes of one dispatch of EVT_VALUE_WILL_CHANGE: stopped or not.
Vetoes == IF VetoMayStop THEN BOOLEAN ELSE {FALSE}

VARIABLE ui

vars == <<ui>>

-----------------------------------------------------------------------------
(* pages_active_is_valid: the uint32 comparison active < count.  No        *)
(* negative int32 reading is below a count.                                *)
Valid(s, a) == 0 <= a /\ a < Len(s.children)

\* widget_get_child(widget, index): NULL when out of range.
ChildAt(s, a) == IF Valid(s, a) THEN s.children[a + 1] ELSE NoPage

\* The index of a child (widget_index_of), 0-based.
IndexOf(s, p) == CHOOSE i \in 0 .. Len(s.children) - 1 : s.children[i + 1] = p

\* pages_show_active: each child visible iff its index is active.
ShowActive(s) ==
  [s EXCEPT !.visible = [p \in PageIds |->
                           IF p \in ToSet(s.children) THEN IndexOf(s, p) = s.active
                           ELSE s.visible[p]]]

\* idle_add unless the id is already held.
AddIdle(s, k) ==
  IF k \in s.ids THEN s ELSE [s EXCEPT !.ids = @ \cup {k}, !.idles = @ \cup {k}]

(* pages_restore_target for a valid active page that is not itself a     *)
(* pages widget: with auto_focused the page-focus idle is added; then the *)
(* target-focus idle.  The saved focus target string is not modelled.     *)
RestoreTarget(s) ==
  IF Valid(s, s.active)
  THEN AddIdle(IF s.auto_focused THEN AddIdle(s, "page_focused") ELSE s, "focused")
  ELSE s

\* widget_dispatch_simple_event(widget, EVT_PAGE_CHANGED).
PageChanged(s) == [s EXCEPT !.page_changed = @ + 1]

(* pages_set_active: a change dispatches VALUE_WILL_CHANGE; unless it is  *)
(* stopped, active is set, the pages shown and PAGE_CHANGED dispatched;   *)
(* the focus target is restored either way.  Without a change, or before  *)
(* the first child created the children array, only active is set.        *)
SetActive(s, index, stop) ==
  LET s1 == [s EXCEPT !.has_active = TRUE]
  IN IF s.active # index /\ s.children_array
     THEN RestoreTarget(IF stop THEN s1
                        ELSE PageChanged(ShowActive([s1 EXCEPT !.active = index])))
     ELSE [s1 EXCEPT !.active = index]

\* Fault variant of ChildEvent: the validity fix-up left out.
ChildEventShowOnly(s, stop) == ShowActive(s)

(* pages_on_event for EVT_WIDGET_LOAD, and for EVT_WIDGET_ADD_CHILD and   *)
(* EVT_WIDGET_REMOVE_CHILD when not loading: an invalid active becomes 0. *)
ChildEvent(s, stop) ==
  IF ~Valid(s, s.active) THEN SetActive(s, 0, stop) ELSE ShowActive(s)

ChildChangeEvent(s, stop) == IF s.loading THEN s ELSE ChildEvent(s, stop)

\* Fault variant of OnAddChild: the pages not shown again.
OnAddChildNoShow(s, p) ==
  [s EXCEPT !.children = Append(@, p), !.children_array = TRUE,
            !.visible[p] = TRUE]

(* pages_on_add_child: widget_add_child_default appends the child (a new  *)
(* widget is visible), the pages are shown, and PAGE_CHANGED dispatched   *)
(* if the child at the active index changed.                               *)
OnAddChild(s, p) ==
  LET s1 == ShowActive([s EXCEPT !.children = Append(@, p), !.children_array = TRUE,
                                 !.visible[p] = TRUE])
  IN IF ChildAt(s, s.active) # ChildAt(s1, s1.active) THEN PageChanged(s1) ELSE s1

(* pages_on_remove_child, with the child still in the list: removing a    *)
(* child before the active one, or the active one when it is last, moves  *)
(* active back by one (not below 0); PAGE_CHANGED if the child at the     *)
(* active index is now another.                                            *)
OnRemoveChild(s, r, stop) ==
  LET a == s.active
      isLast == r = Len(s.children) - 1
      s1 == IF r < a \/ (r = a /\ isLast)
            THEN SetActive(s, IF a - 1 > 0 THEN a - 1 ELSE 0, stop)
            ELSE s
  IN IF ChildAt(s, s.active) # ChildAt(s1, s1.active) THEN PageChanged(s1) ELSE s1

\* Fault variant of OnDestroy: the page-focus idle left registered.
OnDestroyKeepsPageFocus(s) ==
  [s EXCEPT !.idles = @ \ (s.ids \ {"page_focused"}), !.alive = FALSE]

(* pages_on_destroy: every idle whose id is held is removed.               *)
OnDestroy(s) == [s EXCEPT !.idles = @ \ s.ids, !.alive = FALSE]

\* Fault variant of IdleDone: the id cleared but the idle kept, as RET_REPEAT would.
IdleDoneRepeat(s, k) == [s EXCEPT !.ids = @ \ {k}]

(* An idle callback returns RET_OK after setting its id to TK_INVALID_ID, *)
(* and the main loop removes it.                                           *)
IdleDone(s, k) == [s EXCEPT !.ids = @ \ {k}, !.idles = @ \ {k}]

-----------------------------------------------------------------------------
\* Every call starts with no PAGE_CHANGED dispatched yet.
Call(s) == [s EXCEPT !.page_changed = 0]

(* pages_create / pages_init: the init idle is added, active is           *)
(* 0xffffffff, auto_focused TRUE.  Created by the loader (loading) or by  *)
(* code.                                                                   *)
Init ==
  \E loading \in BOOLEAN :
    ui = [children |-> <<>>, children_array |-> FALSE, active |-> NoActive,
          has_active |-> FALSE, auto_focused |-> TRUE,
          visible |-> [p \in PageIds |-> FALSE],
          ids |-> {"init"}, idles |-> {"init"},
          loading |-> loading, alive |-> TRUE, page_changed |-> 0]

\* The pages widget still takes calls.
Live == ui.alive

\* widget_add_child of a new page while the loader builds the tree.
LoadAddChild(p) ==
  /\ Live /\ ui.loading /\ p \notin ToSet(ui.children)
  /\ ui' = OnAddChild(Call(ui), p)

\* The loader sets the "active"/"value" attribute (before or among the
\* children): pages_set_prop -> pages_set_active with the written index.
LoadSetActive(i) ==
  /\ Live /\ ui.loading
  /\ \E stop \in Vetoes : ui' = SetActive(Call(ui), i, stop)

\* The loader finishes: EVT_WIDGET_LOAD.
Load ==
  /\ Live /\ ui.loading
  /\ \E stop \in Vetoes : ui' = ChildEvent([Call(ui) EXCEPT !.loading = FALSE], stop)

\* widget_add_child after loading: on_add_child, then EVT_WIDGET_ADD_CHILD.
AddChild(p) ==
  /\ Live /\ ~ui.loading /\ p \notin ToSet(ui.children)
  /\ \E stop \in Vetoes : ui' = ChildChangeEvent(OnAddChild(Call(ui), p), stop)

(* widget_remove_child of the child at index r: on_remove_child, the     *)
(* removal, EVT_WIDGET_REMOVE_CHILD.  Each dispatch of VALUE_WILL_CHANGE  *)
(* may be stopped on its own.                                              *)
RemoveChild(r) ==
  /\ Live /\ ~ui.loading
  /\ \E stop1, stop2 \in Vetoes :
       LET s1 == OnRemoveChild(Call(ui), r, stop1)
       IN ui' = ChildChangeEvent([s1 EXCEPT !.children = RemoveAt(@, r + 1)], stop2)

\* pages_set_active (or _by_name, or set_prop "value") with a child index.
SetActiveCall(i) ==
  /\ Live /\ ~ui.loading
  /\ \E stop \in Vetoes : ui' = SetActive(Call(ui), i, stop)

\* pages_set_auto_focused.
SetAutoFocused(b) ==
  /\ Live
  /\ ui' = [Call(ui) EXCEPT !.auto_focused = b]

\* pages_on_idle_init_save_target: restore the target, clear the id.
IdleInit ==
  /\ "init" \in ui.idles
  /\ ui' = IdleDone(RestoreTarget(Call(ui)), "init")

(* pages_on_idle_set_target_focused and pages_on_idle_set_page_focused:  *)
(* they move the keyboard focus (not modelled) and clear their id.        *)
IdleFocus(k) ==
  /\ k \in ui.idles
  /\ ui' = IdleDone(Call(ui), k)

\* widget_destroy: pages_on_destroy.
Destroy ==
  /\ Live
  /\ ui' = OnDestroy(Call(ui))

Next ==
  \/ \E p \in PageIds : LoadAddChild(p) \/ AddChild(p)
  \/ \E i \in 0 .. Cardinality(PageIds) - 1 : LoadSetActive(i)
  \/ Load
  \/ \E r \in 0 .. Len(ui.children) - 1 : RemoveChild(r) \/ SetActiveCall(r)
  \/ \E b \in BOOLEAN : SetAutoFocused(b)
  \/ IdleInit
  \/ \E k \in {"focused", "page_focused"} : IdleFocus(k)
  \/ Destroy

Spec == Init /\ [][Next]_vars

(* The main loop runs the idle callbacks registered with idle_add         *)
(* (base/idle.h) at each of its iterations, whatever the widget calls do  *)
(* meanwhile: weak fairness of each pages idle.  The calls on the widget   *)
(* come from the application and get no fairness.                          *)
FairSpec ==
  /\ Spec
  /\ WF_vars(IdleInit)
  /\ \A k \in {"focused", "page_focused"} : WF_vars(IdleFocus(k))

\* The page the user sees as active: the child at the active index.
Shown(s) == ChildAt(s, s.active)

-----------------------------------------------------------------------------
(* Properties.                                                             *)

TypeOK ==
  /\ ui.children \in Seq(PageIds) /\ IsInjective(ui.children)
  /\ ui.active \in NoActive .. Cardinality(PageIds) - 1
  /\ ui.visible \in [PageIds -> BOOLEAN]
  /\ ui.ids \subseteq IdleKinds /\ ui.idles \subseteq IdleKinds
  /\ ui.page_changed \in 0 .. 3
  /\ {ui.children_array, ui.has_active, ui.auto_focused, ui.loading, ui.alive}
       \subseteq BOOLEAN

(* pages.h: only the active page is shown.  After every call, each child *)
(* is visible exactly when its index is the active one, through loading,  *)
(* additions, removals that shift the indices, and vetoed changes.         *)
ShowsOnlyActive ==
  \A i \in 1 .. Len(ui.children) : ui.visible[ui.children[i]] <=> i - 1 = ui.active

(* Once loaded, a pages widget with children has a valid active index:   *)
(* pages_on_remove_child moves active back when the active last page goes,*)
(* and the child events reset an invalid active to 0.                     *)
ActiveValid ==
  (ui.alive /\ ~ui.loading /\ Len(ui.children) > 0) => Valid(ui, ui.active)

(* The main loop holds a pages idle callback exactly while pages holds    *)
(* its id, and none after pages_on_destroy: no callback runs on a         *)
(* destroyed widget and no stale id is passed to idle_remove.             *)
IdlesOwned ==
  ui.idles = IF ui.alive THEN ui.ids ELSE {}

(* Whenever a call makes another child the shown active page, the pages  *)
(* widget dispatches EVT_PAGE_CHANGED during that call (what a tab        *)
(* control listening to it needs to stay in step).                         *)
ShownChangeNotified ==
  [][Shown(ui') \notin {Shown(ui), NoPage} => ui'.page_changed > 0]_vars

(* Every idle callback pages registers (the init idle of pages_create,    *)
(* the focus idles of pages_restore_target) is eventually run and removed *)
(* by its RET_OK, or removed by pages_on_destroy: none stays registered    *)
(* for ever, while the application goes on calling the widget.             *)
IdlesRetire ==
  \A k \in IdleKinds : k \in ui.idles ~> k \notin ui.idles
=============================================================================
