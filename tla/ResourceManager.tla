-------------------------- MODULE ResourceManager --------------------------
(***************************************************************************)
(* ResourceManager of resource_manager.h: the counting semaphore that      *)
(* bounds how many jobs run, the CPU and memory budget behind it, and the  *)
(* WorkerSlot array the dashboard shows.                                   *)
(*                                                                         *)
(* Every operator is one atomic step: a critical section of mutex_, with   *)
(* the semaphore call next to it.  That is sound: a sem_wait followed by   *)
(* steps of other threads can as well come after them, a sem_post before   *)
(* them, so that acquire() and release() act as if they were atomic.       *)
(***************************************************************************)
EXTENDS Integers, FiniteSets

CONSTANTS
  MAX_CONCURRENT,   \* the initial value of the semaphore, and the slots
  TOTAL_CPU,
  TOTAL_MEMORY,
  NoId              \* the job_id of a free WorkerSlot (-1 in the code)

ASSUME ResourceAssumption ==
  /\ MAX_CONCURRENT \in Nat \ {0}
  /\ TOTAL_CPU \in Nat
  /\ TOTAL_MEMORY \in Nat

VARIABLES
  slots,         \* the value of the semaphore slots_
  used_cpu,      \* used_cpu_
  used_memory,   \* used_memory_
  active_jobs,   \* active_jobs_
  workers        \* workers_[s]: busy and job_id of slot s

budgetVars == <<slots, used_cpu, used_memory, active_jobs>>
resourceVars == <<budgetVars, workers>>

SlotIds == 0 .. MAX_CONCURRENT - 1

FreeSlot == [busy |-> FALSE, job_id |-> NoId]

ResourceTypeOK(ids) ==
  /\ slots \in Nat
  /\ used_cpu \in Nat
  /\ used_memory \in Nat
  /\ active_jobs \in Nat
  /\ workers \in [SlotIds -> [busy : BOOLEAN, job_id : ids]]

ResourceInit ==
  /\ slots = MAX_CONCURRENT
  /\ used_cpu = 0
  /\ used_memory = 0
  /\ active_jobs = 0
  /\ workers = [s \in SlotIds |-> FreeSlot]

-----------------------------------------------------------------------------
fits(cpu, mem) ==
  /\ used_cpu + cpu <= TOTAL_CPU
  /\ used_memory + mem <= TOTAL_MEMORY

(* acquire() returns true, ...                                             *)
acquire(cpu, mem) ==
  /\ slots > 0
  /\ fits(cpu, mem)
  /\ slots' = slots - 1
  /\ used_cpu' = used_cpu + cpu
  /\ used_memory' = used_memory + mem
  /\ active_jobs' = active_jobs + 1

(* Mutant: the refused job keeps its permit.                               *)
refuseWithPermit(cpu, mem) ==
  /\ slots > 0
  /\ ~ fits(cpu, mem)
  /\ slots' = slots - 1
  /\ UNCHANGED <<used_cpu, used_memory, active_jobs>>

(* ... or false, after it has got a permit and has given it back.          *)
refuse(cpu, mem) ==
  /\ slots > 0
  /\ ~ fits(cpu, mem)
  /\ UNCHANGED <<slots, used_cpu, used_memory, active_jobs>>

atLeastZero(n) == IF n < 0 THEN 0 ELSE n

(* Mutant: no sem_post.                                                    *)
releaseNoPost(cpu, mem) ==
  /\ used_cpu' = atLeastZero(used_cpu - cpu)
  /\ used_memory' = atLeastZero(used_memory - mem)
  /\ active_jobs' = atLeastZero(active_jobs - 1)
  /\ UNCHANGED slots

(* Mutant: the memory is not given back.                                   *)
releaseCpu(cpu, mem) ==
  /\ used_cpu' = atLeastZero(used_cpu - cpu)
  /\ active_jobs' = atLeastZero(active_jobs - 1)
  /\ slots' = slots + 1
  /\ UNCHANGED used_memory

release(cpu, mem) ==
  /\ used_cpu' = atLeastZero(used_cpu - cpu)
  /\ used_memory' = atLeastZero(used_memory - mem)
  /\ active_jobs' = atLeastZero(active_jobs - 1)
  /\ slots' = slots + 1

setWorkerBusy(s, id) ==
  workers' = [workers EXCEPT ![s] = [busy |-> TRUE, job_id |-> id]]

(* Mutant: the busy flag stays.                                            *)
clearWorkerJob(s) == workers' = [workers EXCEPT ![s].job_id = NoId]

setWorkerFree(s) == workers' = [workers EXCEPT ![s] = FreeSlot]

(* The result of getFreeWorkerSlot(): the first slot not busy, or -1.      *)
isFreeWorkerSlot(s) ==
  \/ /\ s \in SlotIds
     /\ ~ workers[s].busy
     /\ \A t \in SlotIds : t < s => workers[t].busy
  \/ /\ s = -1
     /\ \A t \in SlotIds : workers[t].busy

=============================================================================
