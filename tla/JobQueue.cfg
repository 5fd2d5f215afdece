SPECIFICATION Spec
CONSTANTS
  j1 = j1
  j2 = j2
  j3 = j3
  p1 = p1
  p2 = p2
  NoJob = NoJob
  aging = aging
  NoThread = NoThread
  AgingThread = aging
  Pusher = {p1, p2}
  Jobs <- MCJobs
  PriorityOf <- MCPriorityOf
  SubmitTime <- MCSubmitTime
  CpuRequired <- MCNone
  MemoryRequired <- MCNone
  BurstTime <- MCNone
  MLFQ_LEVELS = 2
  MLFQ_QUANTUM <- MCQuantum
  AGING_THRESHOLD = 1
  AGED_BUF = 2
SYMMETRY PusherSymmetry
INVARIANTS
  TypeOK
  Sorted
  SizeMatches
  WalkInList
PROPERTIES
  ImplementsQueueSpec
