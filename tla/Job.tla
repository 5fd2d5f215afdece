-------------------------------- MODULE Job --------------------------------
(***************************************************************************)
(* The Job struct of job.h: the attributes a job is constructed with, the  *)
(* MLFQ parameters, and the pure member functions the scheduler decides    *)
(* by.  status is declared by JobLifecycle, the other fields that change   *)
(* (elapsed_ticks, ...) by the modules that change them.                   *)
(***************************************************************************)
EXTENDS JobLifecycle

CONSTANTS
  NoJob,            \* the null Job pointer
  PriorityOf,       \* Job::priorityValue(), 1 (LOW) .. 4 (CRITICAL)
  SubmitTime,       \* Job::submit_time, taken by the constructor
  CpuRequired,      \* Job::cpu_required
  MemoryRequired,   \* Job::memory_required
  BurstTime,        \* Job::burst_time, in ticks
  MLFQ_LEVELS,      \* the number of feedback levels
  MLFQ_QUANTUM,     \* ticks a slice may use at each level
  AGING_THRESHOLD   \* queue ticks after which a job is promoted

Levels == 0 .. MLFQ_LEVELS - 1
LastLevel == MLFQ_LEVELS - 1

Priorities == 1 .. 4

(***************************************************************************)
(* One GUI thread constructs every job and reads a nanosecond steady clock *)
(* to do so: no two jobs have the same submit_time.                        *)
(***************************************************************************)
ASSUME JobAssumption ==
  /\ IsFiniteSet(Jobs)
  /\ NoJob \notin Jobs
  /\ PriorityOf \in [Jobs -> Priorities]
  /\ SubmitTime \in [Jobs -> Nat]
  /\ \A i, j \in Jobs : SubmitTime[i] = SubmitTime[j] => i = j
  /\ CpuRequired \in [Jobs -> Nat]
  /\ MemoryRequired \in [Jobs -> Nat]
  /\ BurstTime \in [Jobs -> Nat]
  /\ MLFQ_LEVELS \in Nat \ {0}
  /\ MLFQ_QUANTUM \in [Levels -> Nat \ {0}]
  /\ AGING_THRESHOLD \in Nat \ {0}

-----------------------------------------------------------------------------
(* The order of a level's list: higher priority first, and the earlier     *)
(* submit_time first between equals.                                       *)
Precedes(i, j) ==
  \/ PriorityOf[i] > PriorityOf[j]
  \/ PriorityOf[i] = PriorityOf[j] /\ SubmitTime[i] < SubmitTime[j]

(* j is the job of S that the list of S has at its head.                   *)
IsFirst(j, S) ==
  /\ j \in S
  /\ \A k \in S \ {j} : Precedes(j, k)

(* Mutant: the quantum has to be overrun before it counts as expired.      *)
quantumOverrun(lvl, ticks) ==
  ticks > MLFQ_QUANTUM[IF lvl \in Levels THEN lvl ELSE LastLevel]

(* Job::quantumExpired(): a level out of range counts as the last one.     *)
quantumExpired(lvl, ticks) ==
  ticks >= MLFQ_QUANTUM[IF lvl \in Levels THEN lvl ELSE LastLevel]

=============================================================================
