\* Three children: two radios and a check button can all be present, and
\* the second child has a handler that may veto VALUE_WILL_CHANGE.
CONSTANTS
  N = 3
  Vetoing = {2}
SPECIFICATION Spec
PROPERTIES
  UnvetoedSelectionIsExclusive
  SideEffectsOnlyUncheckRadios
