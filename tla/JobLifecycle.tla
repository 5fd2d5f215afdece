---------------------------- MODULE JobLifecycle ----------------------------
(***************************************************************************)
(* The statuses of job.h and the life of a job as everyone but its owner   *)
(* sees it: a run of atomic stores and swaps of Job::status by several     *)
(* threads.  Scheduler implements LifecycleSpec; the modules of the        *)
(* dashboard, which only look at jobs, are built on it.                    *)
(***************************************************************************)
EXTENDS Integers, FiniteSets

CONSTANT Jobs       \* the Job objects the GUI thread may construct

VARIABLE status     \* Job::status

JobStatus ==
  {"WAITING", "READY", "RUNNING", "PREEMPTED", "COMPLETED", "FAILED"}

(* The statuses a job can change to: it is pushed, started or refused, is  *)
(* asked to give way or ends its quantum, and is requeued or completes.    *)
MayBecome(s, t) ==
  \/ s = "WAITING" /\ t = "READY"
  \/ s = "READY" /\ t \in {"RUNNING", "FAILED"}
  \/ s = "RUNNING" /\ t \in {"PREEMPTED", "COMPLETED"}
  \/ s = "PREEMPTED" /\ t \in {"READY", "COMPLETED"}

become(j, t) ==
  /\ MayBecome(status[j], t)
  /\ status' = [status EXCEPT ![j] = t]

LifecycleInit == status = [j \in Jobs |-> "WAITING"]

LifecycleNext == \E j \in Jobs : \E t \in JobStatus : become(j, t)

LifecycleSpec == LifecycleInit /\ [][LifecycleNext]_status

=============================================================================
