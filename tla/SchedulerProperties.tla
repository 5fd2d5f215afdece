------------------------ MODULE SchedulerProperties ------------------------
(***************************************************************************)
(* What the Scheduler owes its jobs: the safety, action and liveness       *)
(* properties of module Scheduler, and the claims of the documentation     *)
(* that the code does not keep.                                            *)
(***************************************************************************)
EXTENDS Scheduler, FiniteSetsExt

ThreadTypeOK ==
  /\ elapsed_ticks \in [Jobs -> Nat]
  /\ running \in BOOLEAN
  /\ active \in [SlotIds -> Jobs \cup {NoJob}]
  /\ gpc \in {"gui", "join", "stopped"}

DispatcherTypeOK ==
  /\ dpc \in {"top", "ticks", "scan", "probe", "cas", "pop", "spawn", "done"}
  /\ cycle \in 0 .. TICK_CYCLES - 1
  /\ didx \in Nat
  /\ dpc \in {"ticks", "pop"} => didx \in Levels
  /\ dpc \in {"scan", "probe", "cas"} => didx \in SlotIds
  /\ dlvl \in Levels
  /\ djob \in Jobs \cup {NoJob}
  /\ dpc = "spawn" <=> djob # NoJob
  /\ dpc \in {"probe", "cas"} => active[didx] # NoJob

AgingTypeOK ==
  /\ apc \in {"sleep", "drain", "push", "done"}
  /\ alvl \in Nat \ {0}
  /\ apc \in {"drain", "push"} => alvl \in Levels
  /\ aged \subseteq Jobs
  /\ apc = "push" <=> aged # {}

WorkerTypeOK ==
  /\ wpc \in [Worker -> WorkerSteps]
  /\ wjob \in [Worker -> Jobs \cup {NoJob}]
  /\ wslot \in [Worker -> SlotIds \cup {-1}]
  /\ was_preempted \in [Worker -> BOOLEAN]
  /\ \A w \in Worker : wpc[w] # "off" => wjob[w] # NoJob
  /\ \A w \in Worker :
        wpc[w] \in {"claim", "hide"} \cup SlotSteps => wslot[w] \in SlotIds

(* Every variable has its type, and every index is in the range of what it *)
(* indexes at the steps that use it.                                       *)
TypeOK ==
  /\ QueueTypeOK
  /\ ResourceTypeOK(Jobs \cup {NoJob})
  /\ ThreadTypeOK
  /\ DispatcherTypeOK
  /\ AgingTypeOK
  /\ WorkerTypeOK

-----------------------------------------------------------------------------
(* Where a job can be: in a level, in the aged buffer, with the dispatcher *)
(* between tryPop and pthread_create, or with a worker thread.             *)

Held == Queued \cup aged \cup ({djob} \ {NoJob})
Owned == {wjob[w] : w \in {v \in Worker : wpc[v] \in OwnerSteps}}

LevelsDisjoint ==
  \A l, m \in Levels : l # m => level[l] \cap level[m] = {}

(* A job is never in two places: neither queued twice, nor run by two      *)
(* worker threads, nor queued while a worker still works on it.  This is   *)
(* what makes the unlocked writes of workerFunc and of the requeue safe.   *)
OnePlace ==
  /\ LevelsDisjoint
  /\ Queued \cap aged = {}
  /\ djob \notin Queued \cup aged
  /\ Owned \cap Held = {}
  /\ \A v, w \in Worker :
        /\ wpc[v] \in OwnerSteps
        /\ wpc[w] \in OwnerSteps
        /\ wjob[v] = wjob[w]
        => v = w

JobsAccounted ==
  \A j \in Jobs :
     /\ status[j] = "READY" => j \in Held \cup Owned
     /\ status[j] \in {"RUNNING", "PREEMPTED"} => j \in Owned \/ ~ running
     /\ status[j] \in {"WAITING", "COMPLETED", "FAILED"} =>
           j \notin Held \cup Owned

LeaveSteps == {"clear", "hide", "release", "finish"}

LeavesForAReason ==
  \A w \in Worker :
     wpc[w] \in LeaveSteps =>
        \/ elapsed_ticks[wjob[w]] >= BurstTime[wjob[w]]
        \/ was_preempted[w]
        \/ ~ running

StartedSteps == {"show"} \cup LoopSteps \cup LeaveSteps

StartedInProgress ==
  \A w \in Worker :
     wpc[w] \in StartedSteps => status[wjob[w]] \in {"RUNNING", "PREEMPTED"}

(* No job is dropped: a job that waits or runs is somewhere, until stop()  *)
(* lets the workers abandon it; a job that ended, or was never submitted,  *)
(* is nowhere.  A job a worker has started is RUNNING or PREEMPTED until   *)
(* that worker is done with it, and the worker leaves its loop with the    *)
(* burst done, or the job preempted, or because of stop().                 *)
Accounted == JobsAccounted /\ LeavesForAReason /\ StartedInProgress

(* A queued job is READY, is in the list of its own mlfq_level, and starts *)
(* its next slice with the whole quantum.                                  *)
QueuedFresh ==
  /\ \A l \in Levels : \A j \in level[l] : mlfq_level[j] = l
  /\ \A j \in aged : mlfq_level[j] = alvl
  /\ \A j \in Held : status[j] = "READY" /\ ticks_this_slice[j] = 0

(* Neither the quantum nor the burst is ever overrun, by however many      *)
(* slices, levels and preemptions the job went through.                    *)
WithinQuantum ==
  \A j \in Jobs :
     /\ ticks_this_slice[j] <= MLFQ_QUANTUM[mlfq_level[j]]
     /\ elapsed_ticks[j] <= BurstTime[j]

-----------------------------------------------------------------------------
(* Worker slots, permits and the budget.                                   *)

(* Two running jobs never share an entry of active_jobs_, although the     *)
(* slot is guessed without a lock: each finds its own job in its slot, and *)
(* every other entry is null.                                              *)
SlotExclusive ==
  /\ \A w \in Worker : wpc[w] \in SlotSteps => active[wslot[w]] = wjob[w]
  /\ \A v, w \in Worker :
        /\ wpc[v] \in SlotSteps
        /\ wpc[w] \in SlotSteps
        /\ wslot[v] = wslot[w]
        => v = w
  /\ \A s \in SlotIds :
        active[s] # NoJob =>
           \E w \in Worker : wpc[w] \in SlotSteps /\ wslot[w] = s

Permitted == {w \in Worker : wpc[w] \in PermitSteps}

(* The semaphore counts exactly: no path through acquire() and release()   *)
(* loses a permit or posts one twice.                                      *)
PermitsConserved == slots + Cardinality(Permitted) = MAX_CONCURRENT

(* What the jobs of the workers in S require together.                     *)
total(req, job, S) == MapThenSumSet(LAMBDA w : req[job[w]], S)

(* The reserved budget is what the jobs holding it require, and is within  *)
(* the totals; so the clamps of release() never act.                       *)
BudgetConserved ==
  /\ used_cpu = total(CpuRequired, wjob, Permitted)
  /\ used_memory = total(MemoryRequired, wjob, Permitted)
  /\ used_cpu <= TOTAL_CPU
  /\ used_memory <= TOTAL_MEMORY
  /\ active_jobs = Cardinality(Permitted)

(* A job that the machine could hold on its own fails only while others    *)
(* hold some of the budget, be it a new job or one that ran before.        *)
FailsOnlyWhenTaken ==
  [][\A w \in Worker :
        LET j == wjob[w]
        IN /\ wpc[w] = "wait" /\ status'[j] = "FAILED"
           /\ CpuRequired[j] <= TOTAL_CPU
           /\ MemoryRequired[j] <= TOTAL_MEMORY
           => Permitted # {}]_vars

(* A slot the dashboard shows busy has a worker that will set it free.     *)
ShownBusyIsUsed ==
  \A s \in SlotIds :
     workers[s].busy =>
        \E w \in Worker :
           wpc[w] \in LoopSteps \cup {"clear", "hide"} /\ wslot[w] = s

-----------------------------------------------------------------------------
(* Preemption and levels.                                                  *)

Better(k, j) ==
  \/ mlfq_level[k] < mlfq_level[j]
  \/ mlfq_level[k] = mlfq_level[j] /\ PriorityOf[k] > PriorityOf[j]

(* The dispatcher's CAS preempts only in favour of a job that still waits: *)
(* in between its look at the levels and the CAS other threads move jobs.  *)
PreemptsForBetter ==
  [][\A j \in Jobs :
        /\ dpc = "cas" /\ dpc' # "cas"
        /\ status[j] = "RUNNING" /\ status'[j] = "PREEMPTED"
        => \E k \in Queued \cup aged : Better(k, j)]_vars

(* However the stores of the workers, of the GUI thread and the dispatcher *)
(* and its CAS fall between each other, a job lives by JobLifecycle: none  *)
(* is started or requeued twice, fails once started, completes from a      *)
(* queue, or goes back to READY without having been asked to give way.     *)
FollowsLifecycle == LifecycleSpec

(* COMPLETED and FAILED are final, whatever CAS or store comes late.       *)
EndIsFinal ==
  [][\A j \in Jobs : status[j] \in {"COMPLETED", "FAILED"} =>
        status'[j] = status[j]]_vars

(* A job moves one level down for a used-up quantum, or one level up for   *)
(* having aged, and in no other way.  This is the rule of job_queue.h; the *)
(* dashboard tells of another one, see AgedToTop.                          *)
LevelMoves ==
  [][\A j \in Jobs : mlfq_level'[j] # mlfq_level[j] =>
        \/ /\ mlfq_level'[j] = mlfq_level[j] + 1
           /\ ticks_this_slice[j] = MLFQ_QUANTUM[mlfq_level[j]]
           /\ elapsed_ticks[j] < BurstTime[j]
        \/ /\ mlfq_level'[j] = mlfq_level[j] - 1
           /\ aging_ticks[j] = AGING_THRESHOLD]_vars

-----------------------------------------------------------------------------
(* Liveness, under FairSpec.                                               *)

(* No starvation: every job that was submitted completes or fails, unless  *)
(* the scheduler is stopped.                                               *)
EveryJobEnds ==
  \A j \in Jobs :
     status[j] = "READY" ~> status[j] \in {"COMPLETED", "FAILED"} \/ ~ running

(* A preempted job gives its slot up: the request is never overlooked.     *)
PreemptionObserved ==
  \A j \in Jobs :
     status[j] = "PREEMPTED" ~> status[j] \in {"READY", "COMPLETED"} \/ ~ running

(* stop() returns, and in the end no worker thread is left, not even one   *)
(* that was blocked in sem_wait.                                           *)
StopEnds ==
  ~ running ~> gpc = "stopped" /\ \A w \in Worker : wpc[w] = "off"

-----------------------------------------------------------------------------
(* Claims of the documentation and of the program's own messages.          *)

(* scheduler.cpp:93 logs "All threads stopped cleanly." when stop() ends.  *)
CleanStop == gpc = "stopped" => \A w \in Worker : wpc[w] = "off"

(* main.cpp:1143: when a job of higher priority arrives, the one of lower  *)
(* priority is preempted.  So none of lower priority runs on, not asked to *)
(* give way, while a new one is kept waiting for a permit.                 *)
NoInversion ==
  \A v, w \in Worker :
     /\ wpc[w] = "wait" /\ elapsed_ticks[wjob[w]] = 0 /\ slots = 0
     /\ wpc[v] \in LoopSteps /\ status[wjob[v]] = "RUNNING"
     => PriorityOf[wjob[w]] <= PriorityOf[wjob[v]]

(* main.cpp:1144: a job waiting > threshold at L1/L2 is promoted to L0.    *)
(* So a job that goes up goes to the top, from whatever level it waits in. *)
AgedToTop ==
  [][\A j \in Jobs : mlfq_level'[j] < mlfq_level[j] => mlfq_level'[j] = 0]_vars

=============================================================================
