SPECIFICATION Spec
CONSTANTS
  gui = gui
  w1 = w1
  w2 = w2
  Gui = gui
  Writer = {gui, w1, w2}
  Worker = {w1, w2}
  MAX_LOG = 2
  UI_LOG_MAX = 5
  MAX_GANTT = 2
  START_LINES = 1
  NOTICES = 1
  LINES = 3
  RECORDS = 3
  TICKS = 1
SYMMETRY WorkerSymmetry
CHECK_DEADLOCK FALSE
INVARIANTS
  SnapshotIsNewest
  LoggedIsShown
  ThreadOrder
  ChartInTickOrder
PROPERTIES
  ImplementsLogSpec
