SPECIFICATION Spec
CONSTANTS
  j1 = j1
  j2 = j2
  j3 = j3
  w1 = w1
  w2 = w2
  w3 = w3
  NoJob = NoJob
  NoId = NoJob
  Jobs <- MCJobs
  PriorityOf <- MCPriorityOf
  SubmitTime <- MCSubmitTime
  CpuRequired <- MCCpuRequired
  MemoryRequired <- MCMemoryRequired
  BurstTime <- MCBurstTime
  MLFQ_LEVELS = 2
  MLFQ_QUANTUM <- MCQuantum2
  AGING_THRESHOLD = 1
  AGED_BUF = 1
  MAX_CONCURRENT = 1
  TOTAL_CPU = 3
  TOTAL_MEMORY = 3
  Worker = {w1, w2, w3}
  TICK_CYCLES = 1
  MayStop = TRUE
CHECK_DEADLOCK FALSE
INVARIANT CleanStop
