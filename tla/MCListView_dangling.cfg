\* One scroll view and three scroll bars, enough for both slots to fill, for
\* a removal to refill one, and for reinit to re-add the bars it holds; a
\* normal keyboard, so that the arrow keys are handled too.
CONSTANTS
  SVs = {sv1}
  SBs = {sb1, sb2, sb3}
  NULL = NULL
  KeyboardNormal = TRUE
SPECIFICATION LVSpec
PROPERTY NoDanglingUse
CHECK_DEADLOCK FALSE
