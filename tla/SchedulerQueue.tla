--------------------------- MODULE SchedulerQueue ---------------------------
(***************************************************************************)
(* The Scheduler as a user of MLFQJobQueue.  Its threads call the queue as *)
(* the callers of QueueSpec may: no job is pushed or put back twice, the   *)
(* ticks of a slice are counted only by whoever was handed the job, and    *)
(* what checkPreemptions knows of the job it compares stays true.          *)
(*                                                                         *)
(* Module JobQueue shows that the linked lists implement QueueSpec for any *)
(* such callers, so that together the two justify the sets that Scheduler  *)
(* has for levels.                                                         *)
(***************************************************************************)
EXTENDS SchedulerProperties

Queue ==
  INSTANCE QueueSpec WITH
    status <- [j \in Jobs |-> IF status[j] = "WAITING"
                              THEN "WAITING" ELSE "READY"],
    out <- {j \in Jobs : status[j] # "WAITING"} \ (Queued \cup aged),
    dpc <- IF dpc = "probe" THEN "probe"
           ELSE IF dpc = "pop" /\ didx # 0 THEN "pop"
           ELSE "idle",
    dlvl <- IF dpc = "pop" THEN didx ELSE dlvl,
    asked <- IF dpc = "probe"
             THEN [lvl |-> mlfq_level[active[didx]],
                   prio |-> PriorityOf[active[didx]]]
             ELSE [lvl |-> 0, prio |-> 0],
    better <- dpc = "cas",
    apc <- IF apc = "done" THEN "sleep" ELSE apc

(* What the threads of the scheduler do to the queue, in whatever order,   *)
(* is a behaviour that QueueSpec allows its callers: a worker puts a job   *)
(* back only if it was handed out, and once, and the level of the job that *)
(* hasBetterCandidate was asked about stands until the call returns.       *)
UsesQueueSpec == Queue!Spec

=============================================================================
