\* Three pages, no veto: is every change of the shown page announced by
\* EVT_PAGE_CHANGED?
CONSTANTS
  PageIds = {p1, p2, p3}
  NoPage = NoPage
  VetoMayStop = FALSE
SYMMETRY PageSymmetry
SPECIFICATION Spec
PROPERTY ShownChangeNotified
CHECK_DEADLOCK FALSE
