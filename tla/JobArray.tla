------------------------------ MODULE JobArray ------------------------------
(***************************************************************************)
(* all_jobs_, the array through which the statistics and the dashboard     *)
(* find the jobs, and submitJob, which fills it.  What the threads of      *)
(* Scheduler do to a job that is not at its end is any move of             *)
(* JobLifecycle.                                                           *)
(***************************************************************************)
EXTENDS JobLifecycle, Sequences

CONSTANTS
  NoJob,      \* the null Job pointer
  MAX_JOBS    \* the size of all_jobs_

ASSUME JobArrayAssumption ==
  /\ NoJob \notin Jobs
  /\ MAX_JOBS \in Nat \ {0}

VARIABLES
  all_jobs,           \* all_jobs_[0 .. all_jobs_count_ - 1]
  total_submitted,    \* SchedulerStats::total_submitted
  gstep, gjob         \* GUI thread: where it is, the job it submits

arrayVars == <<all_jobs, total_submitted>>
guiVars == <<gstep, gjob>>

ArrayInit ==
  /\ LifecycleInit
  /\ all_jobs = <<>>
  /\ total_submitted = 0
  /\ gstep = "idle" /\ gjob = NoJob

gui(from, to) == gstep = from /\ gstep' = to

(* Mutant: off by one, the array is taken to have room for one more.       *)
RecordBeyond(j) ==
  /\ gui("idle", "count")
  /\ status[j] = "WAITING"
  /\ gjob' = j
  /\ all_jobs' = IF Len(all_jobs) <= MAX_JOBS THEN Append(all_jobs, j)
                                              ELSE all_jobs
  /\ UNCHANGED <<status, total_submitted>>

(* submitJob: the array has room or the job is not recorded, ...           *)
SubmitRecord(j) ==
  /\ gui("idle", "count")
  /\ status[j] = "WAITING"
  /\ gjob' = j
  /\ all_jobs' = IF Len(all_jobs) < MAX_JOBS THEN Append(all_jobs, j)
                                             ELSE all_jobs
  /\ UNCHANGED <<status, total_submitted>>

(* Mutant: the counter is left to its initial value for jobs not recorded. *)
CountRecorded ==
  /\ gui("count", "push")
  /\ total_submitted' = Len(all_jobs)
  /\ UNCHANGED <<status, all_jobs, gjob>>

(* ... it counts as submitted either way, ...                              *)
SubmitCount ==
  /\ gui("count", "push")
  /\ total_submitted' = total_submitted + 1
  /\ UNCHANGED <<status, all_jobs, gjob>>

(* ... and only then reaches the queue, and the other threads.             *)
SubmitPush ==
  /\ gui("push", "idle")
  /\ become(gjob, "READY")
  /\ gjob' = NoJob
  /\ UNCHANGED arrayVars

SubmitJob == SubmitCount \/ SubmitPush \/ \E j \in Jobs : SubmitRecord(j)

(* allJobsSnapshot, with a buffer as large as the array.                   *)
allJobsSnapshot == all_jobs

Recorded == {all_jobs[i] : i \in DOMAIN all_jobs}

=============================================================================
