--------------------------- MODULE SchedulerStats ---------------------------
(***************************************************************************)
(* SchedulerStats and the end of a job in workerFunc: the counters, and    *)
(* recalcStats, by which every worker that completes a job goes over the   *)
(* whole array on its own and stores the three averages one by one.        *)
(*                                                                         *)
(* A job has one worker (OnePlace of Scheduler), so a worker goes by the   *)
(* name of its job.  An average is represented by what it is taken over:   *)
(* the jobs, each with whether its finish_time had been written when it    *)
(* was read.                                                               *)
(***************************************************************************)
EXTENDS JobArray

VARIABLES
  finish_time,        \* whether Job::finish_time has been written
  total_completed, total_failed,
  avg_wait_ticks, avg_turnaround_sec, throughput,
  wstep,              \* worker: where it is at the end of its job
  wrest, wsum         \* recalcStats: the rest of the snapshot, and the
                      \* jobs added up so far

averages == <<avg_wait_ticks, avg_turnaround_sec, throughput>>
counters == <<total_completed, total_failed>>
scanVars == <<wrest, wsum>>
statsVars == <<finish_time, counters, averages, wstep, scanVars>>

StatsInit ==
  /\ finish_time = [j \in Jobs |-> FALSE]
  /\ total_completed = 0 /\ total_failed = 0
  /\ avg_wait_ticks = {} /\ avg_turnaround_sec = {} /\ throughput = {}
  /\ wstep = [j \in Jobs |-> "off"]
  /\ wrest = [j \in Jobs |-> <<>>]
  /\ wsum = [j \in Jobs |-> {}]

worker(j, from, to) ==
  /\ wstep[j] = from
  /\ wstep' = [wstep EXCEPT ![j] = to]
  /\ UNCHANGED <<arrayVars, guiVars>>

(* Started, preempted, requeued: all that is not the end of a job.         *)
Proceed(j) ==
  /\ worker(j, "off", "off")
  /\ status[j] # "WAITING"
  /\ \E t \in {"RUNNING", "PREEMPTED", "READY"} : become(j, t)
  /\ UNCHANGED <<finish_time, counters, averages, scanVars>>

Fail(j) ==
  /\ worker(j, "off", "fail")
  /\ become(j, "FAILED")
  /\ UNCHANGED <<finish_time, counters, averages, scanVars>>

CountFailed(j) ==
  /\ worker(j, "fail", "off")
  /\ total_failed' = total_failed + 1
  /\ UNCHANGED <<status, finish_time, total_completed, averages, scanVars>>

(* The burst is done: the time is written before the status.               *)
Stamp(j) ==
  /\ worker(j, "off", "publish")
  /\ status[j] \in {"RUNNING", "PREEMPTED"}
  /\ finish_time' = [finish_time EXCEPT ![j] = TRUE]
  /\ UNCHANGED <<status, counters, averages, scanVars>>

Publish(j) ==
  /\ worker(j, "publish", "count")
  /\ become(j, "COMPLETED")
  /\ UNCHANGED <<finish_time, counters, averages, scanVars>>

CountCompleted(j) ==
  /\ worker(j, "count", "snapshot")
  /\ total_completed' = total_completed + 1
  /\ UNCHANGED <<status, finish_time, total_failed, averages, scanVars>>

(* recalcStats copies the array, under jobs_mutex_.                        *)
Snapshot(j) ==
  /\ worker(j, "snapshot", "scan")
  /\ wrest' = [wrest EXCEPT ![j] = allJobsSnapshot]
  /\ UNCHANGED <<status, finish_time, counters, averages, wsum>>

(* Mutant: any job that has ended is in the averages.                      *)
hasEnded(j) == status[j] \in {"COMPLETED", "FAILED"}

isCounted(j) == status[j] = "COMPLETED"

(* One turn of its loop, without a lock.                                   *)
ScanJob(j) ==
  /\ worker(j, "scan", "scan")
  /\ wrest[j] # <<>>
  /\ LET k == Head(wrest[j])
     IN wsum' = IF isCounted(k)
                THEN [wsum EXCEPT ![j] = @ \cup {<<k, finish_time[k]>>}]
                ELSE wsum
  /\ wrest' = [wrest EXCEPT ![j] = Tail(@)]
  /\ UNCHANGED <<status, finish_time, counters, averages>>

(* Without a completed job the averages stay as they are.  CPU utilization *)
(* is stored in either case, from module ResourceManager: left out.        *)
EndScan(j) ==
  /\ worker(j, "scan", IF wsum[j] = {} THEN "off" ELSE "wait")
  /\ wrest[j] = <<>>
  /\ UNCHANGED <<status, finish_time, counters, averages, scanVars>>

StoreWait(j) ==
  /\ worker(j, "wait", "turnaround")
  /\ avg_wait_ticks' = wsum[j]
  /\ UNCHANGED <<avg_turnaround_sec, throughput>>
  /\ UNCHANGED <<status, finish_time, counters, scanVars>>

StoreTurnaround(j) ==
  /\ worker(j, "turnaround", "throughput")
  /\ avg_turnaround_sec' = wsum[j]
  /\ UNCHANGED <<avg_wait_ticks, throughput>>
  /\ UNCHANGED <<status, finish_time, counters, scanVars>>

StoreThroughput(j) ==
  /\ worker(j, "throughput", "off")
  /\ throughput' = wsum[j]
  /\ wsum' = [wsum EXCEPT ![j] = {}]
  /\ UNCHANGED <<avg_wait_ticks, avg_turnaround_sec>>
  /\ UNCHANGED <<status, finish_time, counters, wrest>>

workerStep(j) ==
  \/ Proceed(j) \/ Fail(j) \/ CountFailed(j)
  \/ Stamp(j) \/ Publish(j) \/ CountCompleted(j)
  \/ Snapshot(j) \/ ScanJob(j) \/ EndScan(j)
  \/ StoreWait(j) \/ StoreTurnaround(j) \/ StoreThroughput(j)

=============================================================================
