---------------------------- MODULE CheckButton ----------------------------
(***************************************************************************)
(* The check buttons and radio buttons under one parent widget            *)
(* (src/src/widgets/check_button.c).  A button is a check button or a     *)
(* radio button by its vtable; check_button_set_radio keeps the vtable and *)
(* the radio flag in step, so one variable records both.  Every value     *)
(* change dispatches EVT_VALUE_WILL_CHANGE, and a handler the application  *)
(* registered may answer RET_STOP to veto it: the buttons in Vetoing have *)
(* such a handler, and it may veto any change it sees.                     *)
(***************************************************************************)
EXTENDS Naturals, FiniteSets

CONSTANTS
  N,        \* number of buttons among the parent's children
  Vetoing   \* buttons with a VALUE_WILL_CHANGE handler that may stop it

Buttons == 1 .. N

ASSUME N \in Nat /\ Vetoing \subseteq Buttons

WidgetStates == {"normal", "pressed", "over"}

VARIABLES
  value,          \* check_button->value
  indeterminate,  \* check_button->indeterminate
  radio,          \* check_button->radio (and the vtable it selects)
  pressed,        \* check_button->pressed
  state,          \* widget->state, as set by widget_set_state
  last            \* the last call: its target and the changes vetoed

vars == <<value, indeterminate, radio, pressed, state, last>>

-----------------------------------------------------------------------------
(* check_button_set_value_only: clear indeterminate; if the value differs, *)
(* dispatch VALUE_WILL_CHANGE and apply the change unless it is stopped.   *)
(* Returns the new values and whether i's change was vetoed.               *)
SetValueOnly(s, i, v, stop) ==
  LET changes == s.value[i] # v
      vetoed == changes /\ i \in stop
  IN [s  |-> [s EXCEPT !.indeterminate[i] = FALSE,
                       !.value[i] = IF changes /\ ~vetoed THEN v ELSE @],
      vetoed |-> vetoed]

\* Fault variant of SameGroup: the vtable comparison dropped.
SameGroupAnyType(i, j) == i # j

\* The loop's filter: another child with the same vtable.
SameGroup(i, j) == i # j /\ radio[j] = radio[i]

\* Fault variant of SetValue: the sibling loop left out.
SetValueNoSiblings(s, w, v, stop) ==
  LET r == SetValueOnly(s, w, v, stop)
  IN [s |-> r.s, vetoed |-> IF r.vetoed THEN {w} ELSE {}]

(* check_button_set_value: for a radio set to TRUE, first set every other *)
(* child with the same vtable to FALSE, then set w.  Each child's change  *)
(* is vetoed on its own; a veto does not stop the loop.                    *)
SetValue(s, w, v, stop) ==
  LET sib == {j \in Buttons : radio[w] /\ v /\ SameGroup(w, j)}
      t == [value |-> [j \in Buttons |->
                         IF j \in sib /\ s.value[j] /\ j \notin stop
                         THEN FALSE ELSE s.value[j]],
            indeterminate |-> [j \in Buttons |->
                                 IF j \in sib THEN FALSE ELSE s.indeterminate[j]]]
      r == SetValueOnly(t, w, v, stop)
  IN [s |-> r.s,
      vetoed |-> {j \in sib : s.value[j] /\ j \in stop} \cup
                 (IF r.vetoed THEN {w} ELSE {})]

\* The part of the state set_value and set_value_only change.
Current == [value |-> value, indeterminate |-> indeterminate]

\* Apply a set_value result to the variables and record the call.
Apply(call, w, r) ==
  /\ value' = r.s.value
  /\ indeterminate' = r.s.indeterminate
  /\ last' = [call |-> call, target |-> w, vetoed |-> r.vetoed]

\* EVT_CLICK: a radio is set to TRUE, a check button toggles.
ClickValue(w) == IF radio[w] THEN TRUE ELSE ~value[w]

-----------------------------------------------------------------------------
(* Each child is created by check_button_create or _create_radio: init    *)
(* sets the radio flag, set_value_only(FALSE) changes nothing.            *)
Init ==
  /\ value = [i \in Buttons |-> FALSE]
  /\ indeterminate = [i \in Buttons |-> FALSE]
  /\ radio \in [Buttons -> BOOLEAN]
  /\ pressed = [i \in Buttons |-> FALSE]
  /\ state = [i \in Buttons |-> "normal"]
  /\ last = [call |-> "create", target |-> 1, vetoed |-> {}]

\* check_button_set_value (also set_prop "value").
SetValueCall(w, v) ==
  /\ \E stop \in SUBSET Vetoing : Apply("set_value", w, SetValue(Current, w, v, stop))
  /\ UNCHANGED <<radio, pressed, state>>

\* on_event EVT_CLICK (from a key press that activates the button).
Click(w) ==
  /\ \E stop \in SUBSET Vetoing :
       Apply("click", w, SetValue(Current, w, ClickValue(w), stop))
  /\ UNCHANGED <<radio, pressed, state>>

\* on_event EVT_POINTER_DOWN.
PointerDown(w) ==
  /\ pressed' = [pressed EXCEPT ![w] = TRUE]
  /\ state' = [state EXCEPT ![w] = "pressed"]
  /\ last' = [call |-> "pointer", target |-> w, vetoed |-> {}]
  /\ UNCHANGED <<value, indeterminate, radio>>

\* on_event EVT_POINTER_DOWN_ABORT.
PointerDownAbort(w) ==
  /\ pressed' = [pressed EXCEPT ![w] = FALSE]
  /\ state' = [state EXCEPT ![w] = "normal"]
  /\ last' = [call |-> "pointer", target |-> w, vetoed |-> {}]
  /\ UNCHANGED <<value, indeterminate, radio>>

(* on_event EVT_POINTER_UP: a press released inside the button dispatches *)
(* EVT_CLICK to it first; then pressed is cleared and the state reset.    *)
PointerUp(w) ==
  /\ \E inside \in BOOLEAN, stop \in SUBSET Vetoing :
       IF pressed[w] /\ inside
       THEN Apply("click", w, SetValue(Current, w, ClickValue(w), stop))
       ELSE /\ last' = [call |-> "pointer", target |-> w, vetoed |-> {}]
            /\ UNCHANGED <<value, indeterminate>>
  /\ pressed' = [pressed EXCEPT ![w] = FALSE]
  /\ state' = [state EXCEPT ![w] = "normal"]
  /\ UNCHANGED radio

\* on_event EVT_POINTER_LEAVE and EVT_POINTER_ENTER.
PointerHover(w) ==
  /\ \E s \in {"normal", "over"} : state' = [state EXCEPT ![w] = s]
  /\ last' = [call |-> "pointer", target |-> w, vetoed |-> {}]
  /\ UNCHANGED <<value, indeterminate, radio, pressed>>

\* check_button_set_radio (set_prop "radio"): switches the vtable.
SetRadio(w) ==
  /\ \E r \in BOOLEAN : radio' = [radio EXCEPT ![w] = r]
  /\ last' = [call |-> "set_radio", target |-> w, vetoed |-> {}]
  /\ UNCHANGED <<value, indeterminate, pressed, state>>

\* check_button_set_indeterminate: refused for a radio button.
SetIndeterminate(w) ==
  /\ ~radio[w]
  /\ \E x \in BOOLEAN : indeterminate' = [indeterminate EXCEPT ![w] = x]
  /\ last' = [call |-> "set_indeterminate", target |-> w, vetoed |-> {}]
  /\ UNCHANGED <<value, radio, pressed, state>>

Next ==
  \E w \in Buttons :
    \/ \E v \in BOOLEAN : SetValueCall(w, v)
    \/ Click(w)
    \/ PointerDown(w)
    \/ PointerDownAbort(w)
    \/ PointerUp(w)
    \/ PointerHover(w)
    \/ SetRadio(w)
    \/ SetIndeterminate(w)

Spec == Init /\ [][Next]_vars

(* check_button_get_checked_button: the first child with w's vtable whose *)
(* value is set, or none (0).                                              *)
CheckedButton(w) ==
  LET c == {j \in Buttons : radio[j] = radio[w] /\ value[j]}
  IN IF radio[w] /\ c # {} THEN CHOOSE j \in c : \A k \in c : j <= k ELSE 0

-----------------------------------------------------------------------------
(* Properties.                                                             *)

TypeOK ==
  /\ value \in [Buttons -> BOOLEAN]
  /\ indeterminate \in [Buttons -> BOOLEAN]
  /\ radio \in [Buttons -> BOOLEAN]
  /\ pressed \in [Buttons -> BOOLEAN]
  /\ state \in [Buttons -> WidgetStates]
  /\ last \in [call : {"create", "set_value", "click", "pointer", "set_radio",
                       "set_indeterminate"},
               target : Buttons, vetoed : SUBSET Buttons]

(* Selecting a radio button (set_value TRUE or a click) in a call where no *)
(* handler vetoed anything leaves it the only checked radio among its      *)
(* siblings: check_button_get_checked_button then finds it, from any       *)
(* earlier selection, set_radio or veto history.                           *)
UnvetoedSelectionIsExclusive ==
  [][\A w \in Buttons :
       (radio'[w] /\ value'[w] /\ ~value[w] /\ last'.vetoed = {})
         => /\ CheckedButton(w)' = w
            /\ \A j \in Buttons \ {w} : radio'[j] => ~value'[j]]_vars

(* A call on w changes no other button's value except to uncheck a radio *)
(* sibling when w is a radio: a check button's value changes only by      *)
(* calls on it, and nothing is checked as a side effect.                   *)
SideEffectsOnlyUncheckRadios ==
  [][\A j \in Buttons :
       (value'[j] # value[j] /\ j # last'.target)
         => radio[j] /\ radio[last'.target] /\ ~value'[j]]_vars
=============================================================================
