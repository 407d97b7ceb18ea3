------------------------------ MODULE ListView -------------------------------
(***************************************************************************)
(* The list view's bookkeeping of its children                            *)
(* (src/src/ext_widgets/scroll_view/list_view.c): which child is its      *)
(* scroll view, whose on_scroll, on_scroll_to and on_layout_children the  *)
(* list view sets, and which two children fill scroll_bars[2], on whose   *)
(* EVT_VALUE_CHANGED it registers list_view_on_scroll_bar_value_changed.  *)
(* widget_add_child, widget_destroy and the emitter are widget-framework  *)
(* code outside this repository: a child is passed to on_add_child and    *)
(* then appended; a destroyed child is passed to on_remove_child while    *)
(* still among the children, then removed and freed with its emitter; and *)
(* widget_off_by_func removes every registration of the handler, doing    *)
(* nothing on NULL.  The list view's event handlers and the callbacks it  *)
(* sets act on scroll bars and the scroll view through scroll_bar.c and    *)
(* scroll_view.c, outside the repository; what the model keeps of them is *)
(* which widgets they dereference.                                         *)
(***************************************************************************)
EXTENDS Integers, Sequences, SequencesExt

CONSTANTS
  SVs,            \* children of type scroll_view
  SBs,            \* children of type scroll_bar, scroll_bar_d or scroll_bar_m
  NULL,
  KeyboardNormal  \* system_info()->keyboard_type == KEYBOARD_NORMAL

VARIABLES
  children,  \* the list view's children, in order
  dead,      \* children destroyed (freed)
  sv,        \* list_view->scroll_view
  hooked,    \* scroll views whose on_scroll etc. are the list view's callbacks
  bars,      \* list_view->scroll_bars
  handlers,  \* registrations of the value-changed handler on each scroll bar
  isOver,    \* list_view->is_over
  touched    \* the widgets the last handler run dereferenced

lvVars == <<children, dead, sv, hooked, bars, handlers, isOver, touched>>

\* widget_off_by_func(w, EVT_VALUE_CHANGED, list_view_on_scroll_bar_value_changed, list_view).
Off(h, w) == IF w = NULL THEN h ELSE [h EXCEPT ![w] = 0]

\* Fault variant of OnAddScrollBar: the dropped first slot keeps its handler.
OnAddScrollBarKeepsHandler(st, c) ==
  LET b == st.bars
      nb == IF b[1] = NULL /\ b[2] = NULL THEN <<c, NULL>>
            ELSE <<IF b[1] # NULL /\ b[2] = NULL THEN b[1] ELSE b[2], c>>
  IN [bars |-> nb, h |-> [st.h EXCEPT ![c] = @ + 1], u |-> st.u]

(* list_view_on_add_scroll_bar on slots, registrations and dereferenced   *)
(* widgets st: with both slots full the first is dropped (and its handler *)
(* removed through it) and the second moves up; a lone second slot moves  *)
(* up too; the child takes the free slot and gets the handler.            *)
OnAddScrollBar(st, c) ==
  LET b == st.bars
      full == b[1] # NULL /\ b[2] # NULL
      nb == IF b[1] = NULL /\ b[2] = NULL THEN <<c, NULL>>
            ELSE <<IF b[1] # NULL /\ ~full THEN b[1] ELSE b[2], c>>
      h == IF full THEN Off(st.h, b[1]) ELSE st.h
  IN [bars |-> nb, h |-> [h EXCEPT ![c] = @ + 1], u |-> IF full THEN st.u \cup {b[1]} ELSE st.u]

\* The last (WIDGET_FOR_EACH_CHILD_BEGIN_R) child in S other than c, or NULL.
LastOther(S, c) ==
  LET i == SelectLastInSeq(children, LAMBDA w : w \in S /\ w # c)
  IN IF i = 0 THEN NULL ELSE children[i]

(* list_view_on_remove_scroll_bar: the first slot holding c is cleared,   *)
(* its handler removed, and the last other scroll-bar child, if any, is   *)
(* added with list_view_on_add_scroll_bar.                                *)
OnRemoveScrollBar(st, c) ==
  IF c \notin {st.bars[1], st.bars[2]} THEN st
  ELSE LET i == IF st.bars[1] = c THEN 1 ELSE 2
           st1 == [st EXCEPT !.bars[i] = NULL, !.h = Off(st.h, c)]
           o == LastOther(SBs, c)
       IN IF o = NULL THEN st1 ELSE OnAddScrollBar(st1, o)

Slots == [bars |-> bars, h |-> handlers, u |-> {}]

\* The scroll bars in the slots.
SlotBars == {bars[1], bars[2]} \ {NULL}

-----------------------------------------------------------------------------
LVInit ==
  /\ children = <<>> /\ dead = {}
  /\ sv = NULL /\ hooked = {}
  /\ bars = <<NULL, NULL>>
  /\ handlers = [b \in SBs |-> 0]
  /\ isOver = FALSE /\ touched = {}

(* widget_add_child with list_view_on_add_child: a scroll view takes over *)
(* from the previous one, whose callbacks are cleared; a scroll bar goes  *)
(* through list_view_on_add_scroll_bar.  The child is then appended.      *)
LVAddChild(c) ==
  /\ c \notin ToSet(children) \cup dead
  /\ children' = Append(children, c)
  /\ IF c \in SVs
     THEN /\ sv' = c /\ hooked' = (hooked \ {sv}) \cup {c}
          /\ touched' = ({sv} \ {NULL}) \cup {c}
          /\ UNCHANGED <<bars, handlers>>
     ELSE LET st == OnAddScrollBar(Slots, c)
          IN /\ bars' = st.bars /\ handlers' = st.h /\ touched' = st.u \cup {c}
             /\ UNCHANGED <<sv, hooked>>
  /\ UNCHANGED <<dead, isOver>>

\* Fault variant of LVRemoveChild: no search for another scroll view.
LVRemoveChildNoFallback(c) ==
  /\ c \in ToSet(children)
  /\ children' = Remove(children, c)
  /\ dead' = dead \cup {c}
  /\ IF c = sv
     THEN sv' = NULL /\ hooked' = hooked \ {c} /\ UNCHANGED <<bars, handlers>>
     ELSE LET st == OnRemoveScrollBar(Slots, c)
          IN /\ bars' = st.bars
             /\ handlers' = IF c \in SBs THEN [st.h EXCEPT ![c] = 0] ELSE st.h
             /\ UNCHANGED <<sv, hooked>>
  /\ touched' = {c} \cup OnRemoveScrollBar(Slots, c).u
  /\ UNCHANGED isOver

(* widget_destroy of a child, with list_view_on_remove_child: the current *)
(* scroll view is unhooked and replaced by the last other scroll view,    *)
(* after which the callbacks are set again on scroll_view, the pointer to *)
(* the child being removed; any other child goes through                  *)
(* list_view_on_remove_scroll_bar.  The child is then removed and freed.  *)
LVRemoveChild(c) ==
  /\ c \in ToSet(children)
  /\ children' = Remove(children, c)
  /\ dead' = dead \cup {c}
  /\ IF c = sv
     THEN LET o == LastOther(SVs, c)
          IN /\ sv' = o
             /\ hooked' = IF o = NULL THEN hooked \ {c} ELSE hooked \cup {c}
             /\ UNCHANGED <<bars, handlers>>
     ELSE LET st == OnRemoveScrollBar(Slots, c)
          IN /\ bars' = st.bars
             /\ handlers' = IF c \in SBs THEN [st.h EXCEPT ![c] = 0] ELSE st.h
             /\ UNCHANGED <<sv, hooked>>
  /\ touched' = {c} \cup OnRemoveScrollBar(Slots, c).u
  /\ UNCHANGED isOver

(* list_view_scroll_bars_reinit for the last two scroll-bar children r,   *)
(* in reverse order: j starts at ARRAY_SIZE, one past scroll_bars, so the *)
(* first compare reads past the array; that word is taken not to be the   *)
(* child (it is not a scroll bar the list view holds), so each child has  *)
(* the word past the array unregistered and cleared (outside the modelled *)
(* state) and is added with list_view_on_add_scroll_bar.                  *)
ReinitBars(st, r) ==
  IF Len(r) = 0 THEN st
  ELSE LET st1 == OnAddScrollBar(st, r[1])
       IN IF Len(r) = 1 THEN st1 ELSE OnAddScrollBar(st1, r[2])

(* list_view_reinit: the last scroll-view child becomes the scroll view   *)
(* unless it already is (the callbacks again set on the previous one),    *)
(* then the scroll bars are re-initialised.                                *)
LVReinit ==
  LET o == LastOther(SVs, NULL)
      sbs == Reverse(SelectSeq(children, LAMBDA w : w \in SBs))
      st == ReinitBars(Slots, SubSeq(sbs, 1, IF Len(sbs) < 2 THEN Len(sbs) ELSE 2))
  IN /\ IF o # NULL /\ o # sv
        THEN sv' = o /\ hooked' = hooked \cup {sv}
        ELSE UNCHANGED <<sv, hooked>>
     /\ bars' = st.bars /\ handlers' = st.h
     /\ touched' = st.u \cup ToSet(children) \cup ({sv} \ {NULL})
     /\ UNCHANGED <<children, dead, isOver>>

\* An event handler that leaves the children, scroll view and slots as they are.
Handle(u) ==
  /\ touched' = u
  /\ UNCHANGED <<children, dead, sv, hooked, bars, handlers>>

(* EVT_POINTER_UP and EVT_KEY_UP, list_view_on_pointer_up: each scroll    *)
(* bar in a slot is read (its wa_opacity, visible and mobile flag).       *)
LVPointerUp == Handle(SlotBars) /\ UNCHANGED isOver

(* EVT_POINTER_ENTER and EVT_POINTER_LEAVE: is_over is set, then for each *)
(* slot list_view_is_play_auto_hide_scroll_bar_animation returns at once  *)
(* without a scroll view, and otherwise reads a non-NULL bar's            *)
(* orientation and the scroll view's virtual size.                        *)
LVPointerOver(over) ==
  /\ isOver' = over
  /\ Handle(IF sv = NULL \/ SlotBars = {} THEN {} ELSE SlotBars \cup {sv})

(* EVT_WHEEL: only while the pointer is over the list view,               *)
(* list_view_handle_wheel_event reads each bar in a slot.                  *)
LVWheel == Handle(IF isOver THEN SlotBars ELSE {}) /\ UNCHANGED isOver

\* Keys of EVT_KEY_DOWN: one of the page keys, one of the arrows, another.
LVKeys == {"pageup", "up", "other"}

(* EVT_KEY_DOWN without a modifier: the page keys, and with a normal      *)
(* keyboard the arrow keys, scroll the scroll view by scroll_view_scroll_ *)
(* delta_to, which does nothing on NULL.                                   *)
LVKeyDown(key, mod) ==
  LET handled == ~mod /\ (key = "pageup" \/ (KeyboardNormal /\ key = "up"))
  IN Handle(IF handled THEN {sv} \ {NULL} ELSE {}) /\ UNCHANGED isOver

(* list_view_on_scroll_bar_value_changed, emitted by a live scroll bar    *)
(* that holds the handler: the bar's value and orientation are read and,  *)
(* with a scroll view, its offsets and virtual size.                       *)
LVBarValueChanged(b) ==
  /\ handlers[b] > 0 /\ b \notin dead
  /\ Handle({b} \cup ({sv} \ {NULL})) /\ UNCHANGED isOver

(* list_view_on_scroll_view_scroll and _scroll_to, called by a live       *)
(* scroll view whose callbacks are the list view's: through its parent    *)
(* each bar in a slot is read and set, after scroll_view_to_<h|v>_scroll_ *)
(* bar has read the list view's scroll view.                              *)
LVViewScroll(h) ==
  /\ h \in hooked /\ h \notin dead
  /\ Handle({h} \cup SlotBars \cup (IF SlotBars = {} THEN {} ELSE {sv} \ {NULL}))
  /\ UNCHANGED isOver

LVNext ==
  \/ \E c \in SVs \cup SBs : LVAddChild(c) \/ LVRemoveChild(c)
  \/ LVReinit
  \/ LVPointerUp \/ LVWheel
  \/ \E over \in BOOLEAN : LVPointerOver(over)
  \/ \E key \in LVKeys, mod \in BOOLEAN : LVKeyDown(key, mod)
  \/ \E b \in SBs : LVBarValueChanged(b)
  \/ \E h \in SVs : LVViewScroll(h)

LVSpec == LVInit /\ [][LVNext]_lvVars

-----------------------------------------------------------------------------
(* Properties.                                                             *)

LVTypeOK ==
  /\ children \in Seq(SVs \cup SBs) /\ dead \subseteq SVs \cup SBs
  /\ sv \in SVs \cup {NULL} /\ hooked \subseteq SVs
  /\ bars \in (SBs \cup {NULL}) \X (SBs \cup {NULL})
  /\ handlers \in [SBs -> Nat]
  /\ isOver \in BOOLEAN /\ touched \subseteq SVs \cup SBs

\* The child list_view_on_remove_child and list_view_reinit take as the scroll view.
LatestScrollView == LastOther(SVs, NULL)

(* The list view's scroll view is always the last scroll-view child, or   *)
(* NULL when it has none: add takes the newest one, and removing it must  *)
(* fall back to the last remaining one, so that reinit's search finds the *)
(* scroll view it already has.                                             *)
ScrollViewIsLatest == sv = LatestScrollView

(* No scroll bar the list view has dropped from scroll_bars still drives  *)
(* its scroll view: every registration of the value-changed handler is    *)
(* on a bar in a slot, through adds that evict a slot, removals that      *)
(* refill one and reinit's re-adds.                                        *)
HandlersOnlyOnSlots ==
  \A b \in SBs : handlers[b] > 0 => b \in {bars[1], bars[2]}

(* No handler of the list view, nor a callback it set, dereferences a     *)
(* widget destroyed before it ran: the slots, the scroll view and the     *)
(* hooked scroll views it reaches through must have let go of every       *)
(* destroyed child, whatever the order of adds, destroys, reinits and     *)
(* pointer, wheel, key and scroll events.                                  *)
NoDanglingUse == [][touched' \cap dead = {}]_lvVars
=============================================================================
