SPECIFICATION FairSpec
CONSTANTS
  WIN_W = 1440
  WIN_H = 880
  TALL = 1080
  MAX_NAME = 4
  Points <- MCPoints
  MaxEvents = 3
  UI_LOG_MAX = 512
  MAX_GANTT = 2000
  JOB_PAGE = 30
CHECK_DEADLOCK FALSE
INVARIANTS
  TypeOK
  OncePerClick
  FullPages
PROPERTIES
  QuitEnds
