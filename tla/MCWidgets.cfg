\* Pages: three pages, added while loading or later, removed in any order,
\* no handler vetoing VALUE_WILL_CHANGE; Destroy is the widget's last call,
\* so the system stops there.  The main loop runs the idles fairly; no
\* symmetry, as TLC's liveness checking does not allow for it.
\* Draggable: the parent or the window dragged, in or out of the screen or
\* as the native window, with the draggable disabled and enabled at any
\* time; positions followed to |2| and the grab count to 2.
\* Window animator: the four draw_curr variants, opening or closing, with a
\* duration given (100) or defaulted (500), created at clock 0 (the unset
\* start-time sentinel, which re-bases the start at the next frame) or 7,
\* frames 100 or 150 ms apart; the clock bound 800 is 150 + 500 + 150, so
\* every animation, the re-based one included, can run to its end.
\* List view: two scroll views and three scroll bars, each added once and
\* destroyed at most once, with reinit at any time.
CONSTANTS
  PageIds = {p1, p2, p3}
  NoPage = NoPage
  VetoMayStop = FALSE
  UNSPEC = UNSPEC
  PropCalls <- MCPropCalls
  Points <- MCPoints
  Size <- MCSize
  Container <- MCContainer
  Screen <- MCScreen
  InitPos <- MCInitPos
  MaxCoord = 2
  MaxGrab = 2
  Dirs = {"bottom", "top", "left", "right"}
  Durations = {0, 100}
  Win <- MCWin
  StartClock = {0, 7}
  FrameGaps = {100, 150}
  MaxClock = 800
  SVs = {sv1, sv2}
  SBs = {sb1, sb2, sb3}
  NULL = NULL
  KeyboardNormal = TRUE
SPECIFICATION WidgetsSpec
INVARIANTS
  ShowsOnlyActive
  ActiveValid
  IdlesOwned
  DragBracketed
  ScrollViewIsLatest
  HandlersOnlyOnSlots
PROPERTIES
  PagesIdlesRetire
  DragStaysInside
  PercentMonotone
  FinishesOnTarget
CHECK_DEADLOCK FALSE
