SPECIFICATION FairSpec
CONSTANTS
  j1 = j1
  j2 = j2
  j3 = j3
  NoJob = NoJob
  NoId = NoJob
  Jobs <- MCJobs2
  PriorityOf <- MCPriorityOf
  SubmitTime <- MCSubmitTime
  CpuRequired <- MCCpuRequired
  MemoryRequired <- MCMemoryRequired
  BurstTime <- MCBurstTime
  MLFQ_LEVELS = 2
  MLFQ_QUANTUM <- MCQuantum2
  AGING_THRESHOLD = 1
  AGED_BUF = 1
  MAX_CONCURRENT = 1
  TOTAL_CPU = 3
  TOTAL_MEMORY = 3
  Worker = {1, 2}
  TICK_CYCLES = 1
  MayStop = TRUE
ACTION_CONSTRAINT LowestWorker
CHECK_DEADLOCK FALSE
INVARIANTS
  OnePlace
  Accounted
PROPERTIES
  StopEnds
  EveryJobEnds
  PreemptionObserved
  UsesQueueSpec
