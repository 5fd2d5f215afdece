SPECIFICATION Spec
CONSTANTS
  j1 = j1
  j2 = j2
  j3 = j3
  j4 = j4
  Jobs = {j1, j2}
  NoJob = NoJob
  MAX_JOBS = 2
CONSTRAINT FewEnding
SYMMETRY JobSymmetry
CHECK_DEADLOCK FALSE
INVARIANTS
  StatsSettle
